---- MODULE Spec2Model ----
(***************************************************************************)
(* Synchronisation engine of froide-evidencecollection: the syncable model *)
(* layer (models.py), the NocoDB table importer (importer.py), the NocoDB  *)
(* table exporter (exporter.py) and the stats collectors (utils.py).       *)
(*                                                                         *)
(* Conventions                                                             *)
(*   - None (Python None / SQL NULL) is 0; primary keys, external ids,     *)
(*     UUIDs and timestamps are positive integers.                         *)
(*   - Two syncable tables are modelled: "Role" (scalar field name, no     *)
(*     relations) and "Affiliation" (foreign keys person, organization,    *)
(*     role).  The targets of all three foreign keys are drawn from the    *)
(*     Role rows: the exporter treats every target alike, it only reads    *)
(*     the target's pk and external_id.                                    *)
(*   - `now` is the reading of timezone.now(); every step reads a clock    *)
(*     value later than every reading of the earlier steps.                *)
(***************************************************************************)
EXTENDS Integers, Sequences, FiniteSets, TLC

\* ------------------------------------------------------------------ bounds
MaxPk == 4
MaxTime == 3
MaxImportTime == 3
MaxExportTime == 3
MaxUuid == 4
MaxRows == 2

None == 0

Pks == 1..MaxPk
Uuids == 1..MaxUuid
Names == {"a", "b"}
ExtIds == 1..MaxRows

\* ------------------------------------------------------ settings.py (Test)
\* relations of the Affiliation table, in configuration order
RelFields == <<"person", "organization", "role">>

\* field_id of each relation (settings.py: "123", "456", "789")
FieldId(f) == CASE f = "person" -> 123 [] f = "organization" -> 456 [] OTHER -> 789

relation_config(model) == IF model = "Affiliation" THEN RelFields ELSE <<>>

VARIABLES
    inst,      \* the syncable tables: pk -> row
    nextPk,    \* next auto-increment primary key
    now,       \* latest clock reading
    stats,     \* ImportStats of the latest TableImporter
    xstats,    \* ExportStatsCollection of the latest TableExporter
    last,      \* what the latest step did (operation, inputs, remote calls, exception)
    debug,     \* settings.DEBUG
    remote,    \* the rows of the remote Role table, as the fetcher returns them
    horizon,   \* the clock reading at which the exploration stops
    task,      \* the ImportExportRun table and the outcome of the task invocations
    att,       \* the attachment pass of the source import: tables, remote, stats
    aw         \* the abgeordnetenwatch import: tables, configuration, remote, stats

\* the tables of the NocoDB synchronisation and the observations on it
core == <<inst, nextPk, now, stats, xstats, last, debug, remote, horizon>>

\* the state of the task wrappers, the attachment pass and abgeordnetenwatch
ext == <<task, att, aw>>

vars == <<inst, nextPk, now, stats, xstats, last, debug, remote, horizon, task, att, aw>>

\* ----------------------------------------------------------- model layer
EmptyState ==
    [empty |-> TRUE, external_id |-> None, sync_uuid |-> None, name |-> "",
     person |-> None, organization |-> None, role |-> None]

Absent ==
    [model |-> "none", external_id |-> None, sync_uuid |-> None, name |-> "",
     person |-> None, organization |-> None, role |-> None,
     updated_at |-> None, synced_at |-> None, last_synced_state |-> EmptyState]

Exists(db, pk) == db[pk].model # "none"

Objects(db, model) == {pk \in Pks : db[pk].model = model}

\* utils.to_dict: every concrete field but id, dates and generated fields
to_dict(r) ==
    [empty |-> FALSE, external_id |-> r.external_id, sync_uuid |-> r.sync_uuid,
     name |-> r.name, person |-> r.person, organization |-> r.organization,
     role |-> r.role]

\* SyncableModel.is_synced (generated column)
is_synced(r) == r.synced_at # None /\ r.synced_at >= r.updated_at

\* save that stamps synced_at whatever sync is
save_stamping(r, sync, t) == [r EXCEPT !.updated_at = t, !.synced_at = t]

\* SyncableModel.save(sync=...) at clock reading t
save(r, sync, t) ==
    IF sync
    THEN LET r1 == [r EXCEPT !.updated_at = t, !.synced_at = t]
         IN  [r1 EXCEPT !.last_synced_state = to_dict(r1)]
    ELSE [r EXCEPT !.updated_at = t]

\* SyncableModel.mark_synced(t)
mark_synced(r, t) ==
    LET r1 == [r EXCEPT !.synced_at = t]
    IN  [r1 EXCEPT !.last_synced_state = to_dict(r1)]

\* value of a relation field of a row
Rel(r, f) == CASE f = "person" -> r.person [] f = "organization" -> r.organization
             [] OTHER -> r.role

\* ----------------------------------------------------------- stats (empty)
EmptyImportStats ==
    [instance_is_new |-> FALSE, instance_failed |-> FALSE,
     created |-> <<>>, updated |-> <<>>, skipped |-> <<>>, deleted |-> <<>>]

EmptyExportStats == [created |-> <<>>, updated |-> <<>>, failed_links |-> <<>>]

\* the record of a step: the operation, the database it started from, the
\* responses it was given, the requests it made and the exception it raised
NoStep ==
    [op |-> "init", model |-> "", pk |-> None, exc |-> "",
     before |-> [pk \in Pks |-> Absent],
     post_status |-> None, patch_status |-> None,
     to_create |-> <<>>, to_update |-> <<>>, posted |-> FALSE,
     patched |-> FALSE, data |-> <<>>, calls |-> <<>>]

\* no task has been invoked: the ImportExportRun table is empty
NoTask ==
    [runs |-> <<>>, invocations |-> 0, op |-> "", raised |-> "", exc |-> "",
     merged |-> <<>>]

\* a subsystem that takes no part in the specification at hand
Idle == [op |-> "idle"]

\* ------------------------------------------------------------- helpers
RECURSIVE SortedSeq(_)
\* a queryset is iterated in primary-key order
SortedSeq(S) ==
    IF S = {} THEN <<>>
    ELSE LET m == CHOOSE x \in S : \A y \in S : x <= y
         IN  <<m>> \o SortedSeq(S \ {m})

Range(s) == {s[i] : i \in DOMAIN s}

RECURSIVE MaxOf(_)
MaxOf(S) == IF S = {} THEN 0
            ELSE LET x == CHOOSE y \in S : TRUE
                     m == MaxOf(S \ {x})
                 IN  IF x > m THEN x ELSE m

\* utils.get_changes: the fields of the new snapshot that differ from the old
DiffFields == {"external_id", "sync_uuid", "name", "person", "organization", "role"}

Field(d, f) ==
    CASE f = "external_id" -> d.external_id [] f = "sync_uuid" -> d.sync_uuid
    [] f = "person" -> d.person [] f = "organization" -> d.organization
    [] OTHER -> d.role

get_changes(old_data, new_data) ==
    {f \in DiffFields :
        IF f = "name" THEN old_data.name # new_data.name
        ELSE Field(old_data, f) # Field(new_data, f)}

\* ------------------------------------------------------------ exporter.py
\* ExportStatsCollection.track_created
x_track_created(st, pk, r) ==
    [st EXCEPT !.created = Append(@, [id |-> pk, fields |-> to_dict(r)])]

\* ExportStatsCollection.track_updated: diff against the last synced state
x_track_updated(st, pk, r) ==
    LET diff == get_changes(r.last_synced_state, to_dict(r))
    IN  IF diff # {} THEN [st EXCEPT !.updated = Append(@, [id |-> pk, diff |-> diff])]
        ELSE st

\* ExportStatsCollection.track_failed_link
track_failed_link(st, field_id, record_id, rel_instance_id) ==
    [st EXCEPT !.failed_links =
        Append(@, [field_id |-> field_id, record_id |-> record_id,
                   rel_instance_id |-> rel_instance_id])]

\* the value of a one-element set: binds an intermediate result once
Only(S) == CHOOSE x \in S : TRUE

RECURSIVE changed_relations(_, _, _)
changed_relations(db, pk, i) ==
    IF i > Len(relation_config(db[pk].model)) THEN [err |-> FALSE, rels |-> <<>>]
    ELSE LET f == relation_config(db[pk].model)[i]
             rel_instance == Rel(db[pk], f)
             last_rel_id == Rel(db[pk].last_synced_state, f)
         IN  IF rel_instance = None THEN changed_relations(db, pk, i + 1)
             ELSE IF last_rel_id # None /\ last_rel_id = rel_instance
                  THEN changed_relations(db, pk, i + 1)
             ELSE IF db[rel_instance].external_id = None
                  THEN [err |-> TRUE, rels |-> <<>>]
             ELSE Only({IF rest.err THEN rest
                        ELSE [err |-> FALSE,
                              rels |-> <<[field_id |-> FieldId(f),
                                          external_id |-> db[rel_instance].external_id]>>
                                       \o rest.rels]
                        : rest \in {changed_relations(db, pk, i + 1)}})

RECURSIVE set_relations(_, _, _)
set_relations(db, pk, i) ==
    IF i > Len(relation_config(db[pk].model)) THEN [err |-> FALSE, rels |-> <<>>]
    ELSE LET f == relation_config(db[pk].model)[i]
             rel_instance == Rel(db[pk], f)
         IN  IF rel_instance = None THEN set_relations(db, pk, i + 1)
             ELSE IF db[rel_instance].external_id = None
                  THEN [err |-> TRUE, rels |-> <<>>]
             ELSE Only({IF rest.err THEN rest
                        ELSE [err |-> FALSE,
                              rels |-> <<[field_id |-> FieldId(f),
                                          external_id |-> db[rel_instance].external_id]>>
                                       \o rest.rels]
                        : rest \in {set_relations(db, pk, i + 1)}})

\* get_changed_relations without the comparison with the last synced state
get_set_relations(db, pk) == set_relations(db, pk, 1)

\* TableExporter.get_changed_relations: err is the ValueError "has no external ID"
get_changed_relations(db, pk) == changed_relations(db, pk, 1)

\* one link request of pk, as the remote sees it
link_request(X, pk, rel, ok) ==
    [X EXCEPT !.calls = Append(@, [pk |-> pk, field_id |-> rel.field_id,
                                   record_id |-> X.db[pk].external_id,
                                   rel_instance_id |-> rel.external_id, ok |-> ok])]

\* the except branch of update_links
link_failed(X, pk, rel) ==
    [X EXCEPT !.st = track_failed_link(@, rel.field_id, X.db[pk].external_id,
                                       rel.external_id),
              !.exc = "LinkError"]

RECURSIVE link_calls_untracked(_, _, _, _, _)
\* link_calls with the call of track_failed_link left out
link_calls_untracked(X, pk, rels, k, failAt) ==
    IF k > Len(rels) THEN X
    ELSE Only({IF k = failAt THEN [X1 EXCEPT !.exc = "LinkError"]
               ELSE link_calls_untracked(X1, pk, rels, k + 1, failAt)
               : X1 \in {link_request(X, pk, rels[k], k # failAt)}})

RECURSIVE link_calls(_, _, _, _, _)
\* the loop of update_links; the failAt-th request of this instance fails
link_calls(X, pk, rels, k, failAt) ==
    IF k > Len(rels) THEN X
    ELSE Only({IF k = failAt THEN link_failed(X1, pk, rels[k])
               ELSE link_calls(X1, pk, rels, k + 1, failAt)
               : X1 \in {link_request(X, pk, rels[k], k # failAt)}})

RECURSIVE link_calls_continuing(_, _, _, _, _)
\* link_calls that goes on to the next field after a failed request
link_calls_continuing(X, pk, rels, k, failAt) ==
    IF k > Len(rels) THEN X
    ELSE Only({link_calls_continuing(IF k = failAt THEN link_failed(X1, pk, rels[k]) ELSE X1,
                                     pk, rels, k + 1, failAt)
               : X1 \in {link_request(X, pk, rels[k], k # failAt)}})

\* update_links that attempts every changed relation
update_links_continuing(X, pk, failAt) ==
    Only({IF relations.err THEN [X EXCEPT !.exc = "ValueError"]
          ELSE link_calls_continuing([X EXCEPT !.exc = ""], pk, relations.rels, 1, failAt)
          : relations \in {get_changed_relations(X.db, pk)}})

\* update_links whose except branch does not raise again
update_links_swallowed(X, pk, failAt) ==
    Only({IF relations.err THEN [X EXCEPT !.exc = "ValueError"]
          ELSE [link_calls([X EXCEPT !.exc = ""], pk, relations.rels, 1, failAt)
                  EXCEPT !.exc = ""]
          : relations \in {get_changed_relations(X.db, pk)}})

\* TableExporter.update_links
update_links(X, pk, failAt) ==
    Only({IF relations.err THEN [X EXCEPT !.exc = "ValueError"]
          ELSE link_calls([X EXCEPT !.exc = ""], pk, relations.rels, 1, failAt)
          : relations \in {get_changed_relations(X.db, pk)}})

FailAt(fail, pk) == IF pk \in DOMAIN fail THEN fail[pk] ELSE 0

\* create_records, the head of the loop body: the id of the response is written
\* with save(update_fields=["external_id"]), which writes that column alone
record_created(X, pk, id) ==
    [X EXCEPT !.db[pk].external_id = id,
              !.st = x_track_created(@, pk, [X.db[pk] EXCEPT !.external_id = id])]

\* create_records, the try/except/else around update_links
created_synced(X, pk, t) ==
    IF X.exc = "" THEN [X EXCEPT !.db[pk] = save(@, TRUE, t)]
    ELSE [X EXCEPT !.exc = ""]

RECURSIVE create_loop(_, _, _, _, _, _)
\* the zip loop of create_records
create_loop(X, instances, data, k, fail, t) ==
    IF k > Len(instances) \/ k > Len(data) THEN X
    ELSE Only({create_loop(X3, instances, data, k + 1, fail, t)
               : X3 \in {created_synced(X2, instances[k], t)
               : X2 \in {update_links(X1, instances[k], FailAt(fail, instances[k]))
               : X1 \in {record_created(X, instances[k], data[k])}}}})

\* create_records without the comparison of the two lengths
create_records_unchecked(X, instances, status, data, fail, t) ==
    IF status # 200 THEN [X EXCEPT !.posted = TRUE, !.exc = "HTTPError"]
    ELSE create_loop([X EXCEPT !.posted = TRUE, !.data = data], instances, data, 1,
                     fail, t)

\* TableExporter.create_records; status is the HTTP status of the POST
create_records(X, instances, status, data, fail, t) ==
    IF status # 200 THEN [X EXCEPT !.posted = TRUE, !.exc = "HTTPError"]
    ELSE IF Len(data) # Len(instances)
         THEN [X EXCEPT !.posted = TRUE, !.data = data, !.exc = "ValueError"]
    ELSE create_loop([X EXCEPT !.posted = TRUE, !.data = data], instances, data, 1,
                     fail, t)

\* update_records, the head of the loop body
record_updated(X, pk) == [X EXCEPT !.st = x_track_updated(@, pk, X.db[pk])]

\* the try/except around update_links without the else branch
updated_unsynced(X, pk, t) == [X EXCEPT !.exc = ""]

\* update_records, the try/except/else around update_links
updated_synced(X, pk, t) ==
    IF X.exc = "" THEN [X EXCEPT !.db[pk] = mark_synced(@, t)]
    ELSE [X EXCEPT !.exc = ""]

RECURSIVE update_loop_unmarked(_, _, _, _, _)
\* the loop of update_records with the else branch (mark_synced) left out
update_loop_unmarked(X, instances, k, fail, t) ==
    IF k > Len(instances) THEN X
    ELSE Only({update_loop_unmarked([X2 EXCEPT !.exc = ""], instances, k + 1, fail, t)
               : X2 \in {update_links(X1, instances[k], FailAt(fail, instances[k]))
               : X1 \in {record_updated(X, instances[k])}}})

RECURSIVE update_loop(_, _, _, _, _)
\* the loop of update_records
update_loop(X, instances, k, fail, t) ==
    IF k > Len(instances) THEN X
    ELSE Only({update_loop(X3, instances, k + 1, fail, t)
               : X3 \in {updated_synced(X2, instances[k], t)
               : X2 \in {update_links(X1, instances[k], FailAt(fail, instances[k]))
               : X1 \in {record_updated(X, instances[k])}}}})

\* update_records without response.raise_for_status()
update_records_unraised(X, instances, status, fail, t) ==
    update_loop([X EXCEPT !.patched = TRUE], instances, 1, fail, t)

\* TableExporter.update_records; status is the HTTP status of the PATCH
update_records(X, instances, status, fail, t) ==
    IF status # 200 THEN [X EXCEPT !.patched = TRUE, !.exc = "HTTPError"]
    ELSE update_loop([X EXCEPT !.patched = TRUE], instances, 1, fail, t)

\* the ids a remote table hands out for n new records
NewIds(db, model, n) ==
    LET base == MaxOf({db[pk].external_id : pk \in Objects(db, model)})
    IN  [i \in 1..n |-> base + i]

\* objects.filter(external_id__isnull=True)
to_create_qs(db, model) == {pk \in Objects(db, model) : db[pk].external_id = None}

\* to_update without the is_synced filter
to_update_all(db, model, created_ids) == Objects(db, model) \ created_ids

\* to_update without the exclusion of the instances just created
to_update_unexcluded(db, model, created_ids) ==
    {pk \in Objects(db, model) : ~is_synced(db[pk])}

\* objects.filter(is_synced=False).exclude(pk__in=created_ids)
to_update_qs(db, model, created_ids) ==
    {pk \in Objects(db, model) : ~is_synced(db[pk])} \ created_ids

\* TableExporter.run, lines 46-50
create_phase(db, model, to_create, post_status, data, fail, t) ==
    Only({IF to_create # <<>>
          THEN create_records(X0, to_create, post_status, data, fail, t)
          ELSE X0
          : X0 \in {[db |-> db, st |-> EmptyExportStats, calls |-> <<>>, exc |-> "",
                     posted |-> FALSE, patched |-> FALSE, data |-> <<>>,
                     to_create |-> to_create, to_update |-> <<>>]}})

\* TableExporter.run, lines 52-56
update_phase(X, to_update, patch_status, fail, t) ==
    IF to_update # <<>>
    THEN update_records([X EXCEPT !.to_update = to_update], to_update, patch_status,
                        fail, t)
    ELSE X

\* TableExporter.run
export_run(db, model, post_status, ndata, patch_status, fail, t) ==
    Only({IF X1.exc # "" THEN X1
          ELSE Only({update_phase(X1, to_update, patch_status, fail, t)
                     : to_update \in
                         {SortedSeq(to_update_qs(X1.db, model, Range(X1.to_create)))}})
          : X1 \in {create_phase(db, model, to_create, post_status, data, fail, t)
          : to_create \in {SortedSeq(to_create_qs(db, model))},
            data \in {NewIds(db, model, ndata)}}})

\* ------------------------------------------------------------ importer.py
\* A remote row of the Role table is [Id, SyncUUID, Bezeichnung]; SyncUUID is
\* None or the number of the UUID whose string form the row carries.
RemoteUuids == 1..2

RemoteRows == [Id : ExtIds, SyncUUID : {None} \cup RemoteUuids, Bezeichnung : Names]

\* the row lists a remote table can return: one row per Id
RowSets == {R \in SUBSET RemoteRows :
               /\ Cardinality(R) <= MaxRows
               /\ \A a, b \in R : a.Id = b.Id => a = b}

\* uuid.uuid4(): the n-th value no row of the database or of the response holds
RECURSIVE Fresh(_, _)
Fresh(used, n) ==
    LET free == Uuids \ used
        u == CHOOSE x \in free : \A y \in free : x <= y
    IN  IF n = 1 THEN u ELSE Fresh(used \cup {u}, n - 1)

UsedUuids(db, R) ==
    {db[pk].sync_uuid : pk \in {q \in Pks : Exists(db, q)}} \cup {r.SyncUUID : r \in R}

\* rows that carry no sync UUID, in fetch order
NoUuidIds(R) == SortedSeq({r.Id : r \in {x \in R : x.SyncUUID = None}})

IndexOf(s, x) == CHOOSE i \in DOMAIN s : s[i] = x

\* TableImporter.get_obj_data: one mapped row; a missing value is replaced by the
\* field's default (utils.get_default_value), for sync_uuid a new uuid4().
\* A value read from JSON is a str, a default is a UUID.
mapped_row(db, R, row) ==
    [external_id |-> row.Id,
     sync_uuid |-> IF row.SyncUUID = None
                   THEN [kind |-> "uuid",
                         val |-> Fresh(UsedUuids(db, R), IndexOf(NoUuidIds(R), row.Id))]
                   ELSE [kind |-> "str", val |-> row.SyncUUID],
     name |-> row.Bezeichnung]

\* getattr(obj, "sync_uuid") != v : a UUID never equals a str
uuid_ne(local, v) == IF v.kind = "str" THEN TRUE ELSE local # v.val

\* UUIDField.to_python, applied when the row is written
to_python(v) == v.val

\* ImportStats.reset_instance
reset_instance(st) == [st EXCEPT !.instance_is_new = FALSE, !.instance_failed = FALSE]

\* ImportStats.track
track(st, operation, data) ==
    IF operation = "created"
    THEN [st EXCEPT !.instance_is_new = TRUE, !.created = Append(@, data)]
    ELSE IF operation = "skipped"
    THEN [st EXCEPT !.instance_failed = TRUE, !.skipped = Append(@, data)]
    ELSE IF operation = "updated"
    THEN IF st.instance_is_new THEN st ELSE [st EXCEPT !.updated = Append(@, data)]
    ELSE [st EXCEPT !.deleted = Append(@, data)]

\* TableImporter.handle_error: raise unless settings.DEBUG
handle_error(Y, data) ==
    IF ~Y.debug THEN [Y EXCEPT !.exc = "ImportError"]
    ELSE [Y EXCEPT !.st = track(@, "skipped", data)]

\* the unique constraints of the Role table (external_id, sync_uuid, name)
IntegrityError(db, pk, obj) ==
    \E q \in Objects(db, obj.model) \ {pk} :
        \/ db[q].sync_uuid = obj.sync_uuid
        \/ db[q].name = obj.name
        \/ (obj.external_id # None /\ db[q].external_id = obj.external_id)

\* TableImporter.save_instance
save_instance(Y, pk, obj, is_new, t) ==
    IF IntegrityError(Y.db, pk, obj)
    THEN handle_error(Y, pk)
    ELSE [Y EXCEPT !.db[pk] = save(obj, FALSE, t),
                   !.st = track(@, IF is_new THEN "created" ELSE "updated", pk),
                   !.nextPk = IF is_new THEN @ + 1 ELSE @]

\* TableImporter.create_or_update_instance; pk = None when no row has the external id
create_or_update_instance(Y, model, pk, fields, t) ==
    LET Y0 == [Y EXCEPT !.st = reset_instance(@)]
    IN  IF pk # None
        THEN LET obj == Y0.db[pk]
                 update == \/ obj.external_id # fields.external_id
                           \/ uuid_ne(obj.sync_uuid, fields.sync_uuid)
                           \/ obj.name # fields.name
                 new_obj == [obj EXCEPT !.external_id = fields.external_id,
                                        !.sync_uuid = to_python(fields.sync_uuid),
                                        !.name = fields.name]
             IN  IF update THEN save_instance(Y0, pk, new_obj, FALSE, t) ELSE Y0
        ELSE LET new_obj == [Absent EXCEPT !.model = model,
                                           !.external_id = fields.external_id,
                                           !.sync_uuid = to_python(fields.sync_uuid),
                                           !.name = fields.name]
             IN  save_instance(Y0, Y0.nextPk, new_obj, TRUE, t)

\* Model.objects.in_bulk(field_name="external_id"): external_id -> pk
in_bulk(db, model) ==
    [e \in {db[pk].external_id : pk \in Objects(db, model)} |->
        CHOOSE pk \in Objects(db, model) : db[pk].external_id = e]

\* QuerySet.delete(): ON DELETE CASCADE removes the affiliations of a deleted target
Delete(db, gone) ==
    [pk \in Pks |->
        IF pk \in gone THEN Absent
        ELSE IF db[pk].model = "Affiliation"
                /\ {db[pk].person, db[pk].organization, db[pk].role} \cap gone # {}
             THEN Absent
        ELSE db[pk]]

\* delete_instances with the filter(...).delete() left out
delete_instances_kept(Y, model, existing_ids, new_ids) ==
    IF existing_ids \ new_ids # {}
    THEN [Y EXCEPT !.st = track(@, "deleted", Cardinality(existing_ids \ new_ids))]
    ELSE Y

\* TableImporter.delete_instances; external_id__in never matches NULL
delete_instances(Y, model, existing_ids, new_ids) ==
    LET to_delete == existing_ids \ new_ids
        gone == {pk \in Objects(Y.db, model) :
                    Y.db[pk].external_id # None /\ Y.db[pk].external_id \in to_delete}
    IN  IF to_delete # {}
        THEN [Y EXCEPT !.db = Delete(Y.db, gone),
                       !.st = track(@, "deleted", Cardinality(to_delete))]
        ELSE Y

RECURSIVE main_loop(_, _, _, _, _, _, _)
\* the loop of create_or_update_main_instances over obj_data
main_loop(Y, model, existing_objs, R, ids, k, t) ==
    IF k > Len(ids) \/ Y.exc # "" THEN Y
    ELSE LET row == CHOOSE r \in R : r.Id = ids[k]
             fields == mapped_row(Y.db0, R, row)
             pk == IF ids[k] \in DOMAIN existing_objs THEN existing_objs[ids[k]] ELSE None
         IN  main_loop(create_or_update_instance(Y, model, pk, fields, t),
                       model, existing_objs, R, ids, k + 1, t)

\* TableImporter.run for the rows R the remote table returns
import_run(db, next, model, R, dbg, t) ==
    LET existing_objs == in_bulk(db, model)
        ids == SortedSeq({r.Id : r \in R})
        Y0 == [db |-> db, db0 |-> db, st |-> EmptyImportStats, exc |-> "",
               debug |-> dbg, nextPk |-> next]
        Y1 == main_loop(Y0, model, existing_objs, R, ids, 1, t)
    IN  IF Y1.exc # "" THEN Y1
        ELSE delete_instances(Y1, model, DOMAIN existing_objs, Range(ids))

\* ------------------------------------------------------------------ Init
\* A row written by earlier runs, all at clock reading 1:
\*   "new"       created locally, never exported (no external id, never synced)
\*   "imported"  created by an import (external id, never synced)
\*   "exported"  created remotely by an export and in sync
SeedStates == {"new", "imported", "exported"}

Seeded(r, pk, state) ==
    LET r1 == [r EXCEPT !.sync_uuid = pk, !.updated_at = 1,
                        !.external_id = IF state = "new" THEN None ELSE pk]
    IN  IF state = "exported" THEN save(r1, TRUE, 1) ELSE r1

SeedRole(pk, state) ==
    Seeded([Absent EXCEPT !.model = "Role", !.name = IF pk = 1 THEN "a" ELSE "b"],
           pk, state)

SeedAffiliation(pk, target, role, state) ==
    Seeded([Absent EXCEPT !.model = "Affiliation", !.person = target,
                          !.organization = target, !.role = role], pk, state)

\* an affiliation is known remotely only after the targets of its links are
TargetsExported(db, r) ==
    \A f \in Range(RelFields) : Rel(r, f) # None => db[Rel(r, f)].external_id # None

\* databases with the roles 1..2 (at least minRoles of them) and, when both
\* exist, up to maxAff affiliations 3, 4, ... of person 1, organization 1 and
\* role 2 or none
SeedDbs(roleStates, minRoles, affStates, maxAff) ==
    {db \in [Pks -> {Absent} \cup
                    {SeedRole(pk, st) : pk \in 1..2, st \in roleStates} \cup
                    {SeedAffiliation(pk, 1, ro, st) :
                        pk \in 3..(2 + maxAff), ro \in {None, 2}, st \in affStates}] :
        /\ \A pk \in 1..minRoles : Exists(db, pk)
        /\ \A pk \in Pks : Exists(db, pk) =>
              /\ db[pk].sync_uuid = pk
              /\ \A q \in 1..(pk - 1) : Exists(db, q)
              /\ (db[pk].model = "Affiliation" /\ db[pk].external_id # None)
                    => TargetsExported(db, db[pk])}

\* the NocoDB tables are empty and no run takes place on them
CoreIdle(flags, h) ==
    /\ inst = [pk \in Pks |-> Absent]
    /\ nextPk = 1
    /\ now = 1
    /\ stats = EmptyImportStats
    /\ xstats = EmptyExportStats
    /\ last = NoStep
    /\ debug \in flags
    /\ remote = {}
    /\ horizon = h

InitWith(dbs, flags, rowsets, h) ==
    /\ inst \in dbs
    /\ nextPk = 1 + Cardinality({pk \in Pks : Exists(inst, pk)})
    /\ now = 1
    /\ stats = EmptyImportStats
    /\ xstats = EmptyExportStats
    /\ last = NoStep
    /\ debug \in flags
    /\ remote \in rowsets
    /\ horizon = h
    /\ task = NoTask
    /\ att = Idle
    /\ aw = Idle

Init ==
    InitWith(SeedDbs({"new", "exported"}, 2, {"new", "exported"}, 1), {FALSE},
             {R \in RowSets : Cardinality(R) <= 1}, MaxTime)

\* --------------------------------------------------------------- actions
Tick == now < horizon /\ now' = now + 1

\* a local edit of a role in the admin: Model.save()
SaveRole(pk, name) ==
    /\ Tick
    /\ inst[pk].model = "Role"
    /\ ~IntegrityError(inst, pk, [inst[pk] EXCEPT !.name = name])
    /\ inst' = [inst EXCEPT ![pk] = save([@ EXCEPT !.name = name], FALSE, now')]
    /\ last' = [NoStep EXCEPT !.op = "save", !.pk = pk, !.model = "Role",
                              !.before = inst]
    /\ UNCHANGED <<nextPk, stats, xstats, debug, remote, horizon, ext>>

\* a local edit of an affiliation in the admin: Model.save()
SaveAffiliation(pk, role) ==
    /\ Tick
    /\ inst[pk].model = "Affiliation"
    /\ role # None => inst[role].model = "Role"
    /\ inst' = [inst EXCEPT ![pk] = save([@ EXCEPT !.role = role], FALSE, now')]
    /\ last' = [NoStep EXCEPT !.op = "save", !.pk = pk, !.model = "Affiliation",
                              !.before = inst]
    /\ UNCHANGED <<nextPk, stats, xstats, debug, remote, horizon, ext>>

\* SyncableModel.save(sync=True) on a row that is known remotely
SaveSync(pk) ==
    /\ Tick
    /\ Exists(inst, pk) /\ inst[pk].external_id # None
    /\ inst' = [inst EXCEPT ![pk] = save(@, TRUE, now')]
    /\ last' = [NoStep EXCEPT !.op = "save_sync", !.pk = pk, !.model = inst[pk].model,
                              !.before = inst]
    /\ UNCHANGED <<nextPk, stats, xstats, debug, remote, horizon, ext>>

\* SyncableModel.mark_synced() on a row that is known remotely
MarkSynced(pk) ==
    /\ Tick
    /\ Exists(inst, pk) /\ inst[pk].external_id # None
    /\ inst' = [inst EXCEPT ![pk] = mark_synced(@, now')]
    /\ last' = [NoStep EXCEPT !.op = "mark_synced", !.pk = pk,
                              !.model = inst[pk].model, !.before = inst]
    /\ UNCHANGED <<nextPk, stats, xstats, debug, remote, horizon, ext>>

\* TableImporter(Role).run() against the remote table
Import ==
    /\ Tick
    /\ nextPk + Cardinality({r \in remote : r.Id \notin DOMAIN in_bulk(inst, "Role")})
          <= MaxPk + 1
    /\ Cardinality(Uuids \ UsedUuids(inst, remote)) >= Len(NoUuidIds(remote))
    /\ \E Y \in {import_run(inst, nextPk, "Role", remote, debug, now')} :
           /\ inst' = Y.db
           /\ nextPk' = Y.nextPk
           /\ stats' = Y.st
           /\ last' = [NoStep EXCEPT !.op = "import", !.model = "Role", !.exc = Y.exc,
                                     !.before = inst]
    /\ UNCHANGED <<xstats, debug, remote, horizon, ext>>

\* TableExporter(model).run(); post_status and ndata are the status and the number
\* of ids of the POST response, patch_status the status of the PATCH response,
\* fail[pk] the number of the link request of pk that fails (0: none)
ExportRun(model, post_status, ndata, patch_status, fail) ==
    /\ Tick
    /\ \E X \in {export_run(inst, model, post_status, ndata, patch_status, fail, now')} :
           /\ inst' = X.db
           /\ xstats' = X.st
           /\ last' = [NoStep EXCEPT !.op = "export", !.model = model, !.exc = X.exc,
                                     !.before = inst, !.post_status = post_status,
                                     !.patch_status = patch_status,
                                     !.to_create = X.to_create, !.to_update = X.to_update,
                                     !.posted = X.posted, !.patched = X.patched,
                                     !.data = X.data, !.calls = X.calls]
    /\ UNCHANGED <<nextPk, stats, debug, remote, horizon, ext>>

\* the link requests the run issues for pk: one per changed relation
LinkRequests(model, pk) ==
    IF inst[pk].external_id = None \/ ~is_synced(inst[pk])
    THEN 0..Len(get_changed_relations(inst, pk).rels) ELSE {0}

\* every response the remote can give to the requests of one run
Export ==
    \E model \in {"Role", "Affiliation"} :
      LET n == Cardinality({pk \in Objects(inst, model) : inst[pk].external_id = None})
          m == Cardinality({pk \in Objects(inst, model) :
                               inst[pk].external_id # None /\ ~is_synced(inst[pk])})
          NoFail == [pk \in Objects(inst, model) |-> 0]
          Fails == {f \in [Objects(inst, model) -> 0..Len(relation_config(model))] :
                       \A pk \in Objects(inst, model) : f[pk] \in LinkRequests(model, pk)}
      IN  \/ \E fail \in Fails : \E patch_status \in IF m = 0 THEN {200} ELSE {200, 400} :
                ExportRun(model, 200, n, patch_status, fail)
          \/ n > 0 /\ \E ndata \in {n - 1, n + 1} : ExportRun(model, 200, ndata, 200, NoFail)
          \/ n > 0 /\ ExportRun(model, 400, n, 200, NoFail)

LocalSave ==
    \/ \E pk \in Pks, name \in Names : SaveRole(pk, name)
    \/ \E pk \in Pks, role \in {None} \cup Pks : SaveAffiliation(pk, role)

SyncSave == \E pk \in Pks : SaveSync(pk)

MarkAsSynced == \E pk \in Pks : MarkSynced(pk)

Next ==
    \/ LocalSave
    \/ SyncSave
    \/ MarkAsSynced
    \/ Import
    \/ Export

Spec == Init /\ [][Next]_vars

\* the importer alone, on a database of roles
InitImport == InitWith(SeedDbs(SeedStates, 0, {}, 0), BOOLEAN, RowSets, MaxImportTime)

NextImport == Import \/ (\E pk \in Pks, name \in Names : SaveRole(pk, name))

SpecImport == InitImport /\ [][NextImport]_vars

\* the exporter and the local edits it picks up
InitExport ==
    InitWith(SeedDbs({"new", "exported"}, 2, {"new", "exported"}, 2), {FALSE}, {{}},
             MaxExportTime)

NextExport == Export \/ LocalSave

SpecExport == InitExport /\ [][NextExport]_vars

\* ================================================================ claims
\* ------------------------------------------------ importer (SpecImport)
\* the external ids of the fetched rows
FetchedIds == {r.Id : r \in remote}

\* the local role pk had, before the run, the external id of the fetched row
Matches(pk, row) ==
    last.before[pk].model = "Role" /\ last.before[pk].external_id = row.Id

Occurrences(s, x) == Cardinality({i \in DOMAIN s : s[i] = x})

\* C1: with settings.DEBUG off, whenever a fetched row has the external id of
\* a local record and a non-null sync id other than the record's sync_uuid,
\* the import raises ImportError and the record is exactly as before the run.
C1_ConflictRaises ==
    (last.op = "import" /\ ~debug) =>
        \A pk \in Pks : \A row \in remote :
            (Matches(pk, row) /\ row.SyncUUID # None
                /\ row.SyncUUID # last.before[pk].sync_uuid)
            => (last.exc = "ImportError" /\ inst[pk] = last.before[pk])

MissingIds ==
    {last.before[pk].external_id : pk \in Objects(last.before, "Role")} \ FetchedIds

C7_SecondImportIdle ==
    [][(last.op = "import" /\ last.exc = "" /\ last'.op = "import")
          => (inst' = inst /\ stats' = EmptyImportStats)]_vars

\* C10: when a fetched row carries no sync id and a local record has its
\* external id, a complete import leaves the record exactly as before and
\* records one 'skipped' entry and no 'created' or 'updated' entry for it.
C10_NoSyncIdSkipped ==
    (last.op = "import" /\ last.exc = "") =>
        \A pk \in Pks : \A row \in remote :
            (Matches(pk, row) /\ row.SyncUUID = None) =>
                /\ inst[pk] = last.before[pk]
                /\ Occurrences(stats.skipped, pk) = 1
                /\ Occurrences(stats.created, pk) = 0
                /\ Occurrences(stats.updated, pk) = 0

\* ------------------------------------------------ exporter (SpecExport)
\* the link requests of pk that failed in the latest run
FailedCalls(pk) == {i \in DOMAIN last.calls : last.calls[i].pk = pk /\ ~last.calls[i].ok}

\* pk was in the create batch and the POST returned one id per instance
CreatedRemotely(pk) ==
    /\ last.op = "export" /\ last.posted /\ last.post_status = 200
    /\ Len(last.data) = Len(last.to_create)
    /\ pk \in Range(last.to_create)

\* pk was in the update batch and the PATCH succeeded
UpdatedRemotely(pk) ==
    /\ last.op = "export" /\ last.patched /\ last.patch_status = 200
    /\ pk \in Range(last.to_update)

\* the relation fields of pk whose target differs from the last synced one
ChangedFields(pk) ==
    {f \in Range(relation_config(last.model)) :
        /\ Rel(last.before[pk], f) # None
        /\ Rel(last.before[pk].last_synced_state, f) # Rel(last.before[pk], f)}

\* a changed relation of pk points to a row that has no external_id
MissingTarget(pk) ==
    \E f \in ChangedFields(pk) : last.before[Rel(last.before[pk], f)].external_id = None

\* the run stamped pk as synced
SyncedByRun(pk) == is_synced(inst[pk]) /\ inst[pk].synced_at = now

\* C2 as stated: an instance created or updated remotely in the run ends it
\* synced, with synced_at advanced, if and only if none of its link calls failed.
C2_SyncedIffNoLinkFailure ==
    \A pk \in Pks : (CreatedRemotely(pk) \/ UpdatedRemotely(pk)) =>
        (SyncedByRun(pk) <=> FailedCalls(pk) = {})

\* C2 (amended): an instance created or updated remotely in the run ends it
\* synced, with synced_at advanced, if and only if every changed relation of it
\* points to a row with an external_id and none of its link calls failed;
\* otherwise its synced_at is as before.  Whatever happens to the other
\* instances of the batch, an instance with no missing target has its first
\* changed relation requested.
C2_SyncedIffLinksDone ==
    \A pk \in Pks : (CreatedRemotely(pk) \/ UpdatedRemotely(pk)) =>
        /\ SyncedByRun(pk) <=> (~MissingTarget(pk) /\ FailedCalls(pk) = {})
        /\ ~SyncedByRun(pk) => inst[pk].synced_at = last.before[pk].synced_at
        /\ (~MissingTarget(pk) /\ ChangedFields(pk) # {})
              => \E i \in DOMAIN last.calls : last.calls[i].pk = pk

\* two instances of one create batch: a link call of the first failed and it
\* is not synced, the second, handled after it, is linked and synced
C2_Witness ==
    \E pk, q \in Pks :
        /\ pk < q /\ CreatedRemotely(pk) /\ CreatedRemotely(q)
        /\ FailedCalls(pk) # {} /\ ~is_synced(inst[pk])
        /\ FailedCalls(q) = {} /\ SyncedByRun(q)
        /\ \E i \in DOMAIN last.calls : last.calls[i].pk = q

\* the position of pk in the create batch
BatchIndex(pk) == CHOOSE i \in DOMAIN last.to_create : last.to_create[i] = pk

\* the failed-link entries of the stats about the record of pk
FailedLinkEntries(pk) ==
    {i \in DOMAIN xstats.failed_links :
        xstats.failed_links[i].record_id = inst[pk].external_id}

\* C3: when one link call of an instance failed after its batch create
\* succeeded, the instance holds the id the response gave it, is not synced,
\* the stats hold exactly one failed-link entry for it, naming the field id of
\* the failed call, the record's external_id and the target's external_id,
\* and they hold its 'created' entry.
C3_LinkFailureIsolated ==
    \A pk \in Pks : (CreatedRemotely(pk) /\ Cardinality(FailedCalls(pk)) = 1) =>
        /\ inst[pk].external_id = last.data[BatchIndex(pk)]
        /\ inst[pk].external_id # None
        /\ ~is_synced(inst[pk])
        /\ Cardinality(FailedLinkEntries(pk)) = 1
        /\ \A i \in FailedLinkEntries(pk) : \E f \in Range(relation_config(last.model)) :
              /\ xstats.failed_links[i].field_id = FieldId(f)
              /\ \E c \in FailedCalls(pk) : last.calls[c].field_id = FieldId(f)
              /\ Rel(inst[pk], f) # None
              /\ xstats.failed_links[i].rel_instance_id
                    = inst[Rel(inst[pk], f)].external_id
        /\ Cardinality({i \in DOMAIN xstats.created : xstats.created[i].id = pk}) = 1

\* a created affiliation whose second link call failed after the first succeeded
C3_Witness ==
    \E pk \in Pks :
        /\ CreatedRemotely(pk) /\ Cardinality(FailedCalls(pk)) = 1
        /\ \E i \in DOMAIN last.calls : last.calls[i].pk = pk /\ last.calls[i].ok

\* the POST succeeded with a number of ids other than the size of the batch
CountMismatch ==
    /\ last.op = "export" /\ last.posted /\ last.post_status = 200
    /\ Len(last.data) # Len(last.to_create)

\* C4: when the batch-create response holds another number of ids than
\* instances were submitted, the run raises ValueError and every submitted
\* instance still has no external_id and is not synced.
C4_CountMismatchRaises ==
    CountMismatch =>
        /\ last.exc = "ValueError"
        /\ \A pk \in Range(last.to_create) :
              inst[pk].external_id = None /\ ~is_synced(inst[pk])

\* a batch of two instances answered with one id
C4_Witness == CountMismatch /\ Len(last.to_create) = 2 /\ Len(last.data) = 1

\* the create phase of the run did not raise
CreatePhasePassed ==
    last.to_create # <<>> =>
        (last.post_status = 200 /\ Len(last.data) = Len(last.to_create))

\* C5: the create batch is exactly the instances without external_id; the
\* update batch, once the create phase has passed, is exactly the instances
\* with an external_id that are not synced; an instance in sync is in neither
\* batch, no request names it, its row is as before and no stats entry is
\* about it.
C5_Partition ==
    last.op = "export" =>
        /\ Range(last.to_create) =
              {pk \in Objects(last.before, last.model) :
                  last.before[pk].external_id = None}
        /\ last.posted <=> last.to_create # <<>>
        /\ CreatePhasePassed =>
              /\ Range(last.to_update) =
                    {pk \in Objects(last.before, last.model) :
                        /\ last.before[pk].external_id # None
                        /\ ~is_synced(last.before[pk])}
              /\ last.patched <=> last.to_update # <<>>
        /\ \A pk \in Objects(last.before, last.model) :
              (last.before[pk].external_id # None /\ is_synced(last.before[pk])) =>
                  /\ pk \notin Range(last.to_create) \cup Range(last.to_update)
                  /\ \A i \in DOMAIN last.calls : last.calls[i].pk # pk
                  /\ inst[pk] = last.before[pk]
                  /\ \A i \in DOMAIN xstats.created : xstats.created[i].id # pk
                  /\ \A i \in DOMAIN xstats.updated : xstats.updated[i].id # pk
                  /\ \A i \in DOMAIN xstats.failed_links :
                        xstats.failed_links[i].record_id # inst[pk].external_id

\* a run that sent a batch while another instance of the table was in sync
C5_Witness ==
    /\ last.op = "export" /\ (last.posted \/ last.patched)
    /\ \E pk \in Objects(last.before, last.model) :
          last.before[pk].external_id # None /\ is_synced(last.before[pk])

\* ------------------------------------------------------ model layer (Spec)
\* the latest step saved pk the ordinary way: a local edit, or the importer's
\* save_instance of an existing row
OrdinarySave(pk) ==
    \/ last.op = "save" /\ last.pk = pk
    \/ last.op = "import" /\ Exists(last.before, pk) /\ Occurrences(stats.updated, pk) > 0

\* the latest step ran save(sync=True) on pk: directly, or in the exporter
\* after the links of a created record were set
SyncSaved(pk) ==
    \/ last.op = "save_sync" /\ last.pk = pk
    \/ CreatedRemotely(pk) /\ ~MissingTarget(pk) /\ FailedCalls(pk) = {}

\* the latest step ran mark_synced on pk: directly, or in the exporter after
\* the links of an updated record were set
MarkedSynced(pk) ==
    \/ last.op = "mark_synced" /\ last.pk = pk
    \/ UpdatedRemotely(pk) /\ ~MissingTarget(pk) /\ FailedCalls(pk) = {}

\* what an ordinary save and a save(sync=True) do to a row, as C8 states it
SaveEffects(pk) ==
    /\ OrdinarySave(pk) =>
          /\ inst[pk].updated_at > last.before[pk].updated_at
          /\ inst[pk].synced_at = last.before[pk].synced_at
          /\ inst[pk].last_synced_state = last.before[pk].last_synced_state
          /\ ~is_synced(inst[pk])
    /\ SyncSaved(pk) =>
          /\ inst[pk].updated_at > last.before[pk].updated_at
          /\ inst[pk].synced_at = inst[pk].updated_at
          /\ is_synced(inst[pk])
          /\ inst[pk].last_synced_state = to_dict(inst[pk])

Processed(r) ==
    \/ \E pk \in Objects(inst, "Role") :
          inst[pk].external_id = r.Id /\ inst[pk].name = r.Bezeichnung
    \/ stats.skipped # <<>>

\* C12: a table import never raises because one instance could not be saved:
\* the failure is recorded as skipped and every fetched row is still processed.
C12_FailureNeverAborts ==
    last.op = "import" => (last.exc = "" /\ \A r \in remote : Processed(r))

\* ------------------------------------------------ exporter, batch failures
\* the create request of the latest run was answered with a failure
PostFailed == last.op = "export" /\ last.posted /\ last.post_status # 200

\* the update request of the latest run was answered with a failure
PatchFailed == last.op = "export" /\ last.patched /\ last.patch_status # 200

\* the stats entries of pk in a list of the collection
EntriesOf(entries, pk) == {i \in DOMAIN entries : entries[i].id = pk}

\* C16: a failure response to the batch POST or the batch PATCH propagates out of
\* TableExporter.run; no instance of the failed batch gets an external_id, a new
\* synced_at or a stats entry, no link request is made for it, and after a
\* failed POST the PATCH is never sent.
C16_BatchFailureAborts ==
    /\ PostFailed =>
          /\ last.exc = "HTTPError"
          /\ inst = last.before
          /\ xstats = EmptyExportStats
          /\ last.calls = <<>>
          /\ ~last.patched
    /\ PatchFailed =>
          /\ last.exc = "HTTPError"
          /\ \A pk \in Range(last.to_update) :
                /\ inst[pk] = last.before[pk]
                /\ EntriesOf(xstats.updated, pk) = {}
                /\ \A i \in DOMAIN last.calls : last.calls[i].pk # pk

\* a PATCH for an out-of-sync role failed after the POST of the same run succeeded
C16_Witness ==
    /\ PatchFailed /\ last.to_update # <<>>
    /\ last.posted /\ last.post_status = 200
    /\ \E pk \in Range(last.to_update) : ~is_synced(inst[pk])

\* ================================================================ tasks.py
\* An optional argument is a sequence of at most one value: <<>> is None.
MaxTaskTime == 3

\* ImportExportRun.objects.create(operation=...): started_at is auto_now_add,
\* the other columns take their defaults
new_run(operation, t) ==
    [operation |-> operation, started_at |-> t, finished_at |-> None,
     success |-> FALSE, changes |-> <<>>, notes |-> ""]

\* complete without the assignment of notes
complete_unnoted(run, success, changes, notes, t) ==
    [run EXCEPT !.success = success,
                !.changes = IF changes # <<>> THEN changes[1] ELSE @,
                !.finished_at = t]

\* ImportExportRun.complete
complete(run, success, changes, notes, t) ==
    [run EXCEPT !.success = success,
                !.changes = IF changes # <<>> THEN changes[1] ELSE @,
                !.notes = notes, !.finished_at = t]

\* ExportStatsCollection.merge: the entry of a table that tracked something
merge(merged, model, st) ==
    IF st = EmptyExportStats THEN merged
    ELSE Append(merged, [model |-> model, stats |-> st])

\* the responses of the remote to one table exporter of the run: the statuses
\* of the POST and the PATCH, whether the POST returns one id too few, and the
\* instances whose first link request fails
Responses(db, model) ==
    {r \in [post_status : {200, 400}, short : BOOLEAN, patch_status : {200, 400},
            fail : {<<>>} \cup {[x \in {pk} |-> 1] :
                                  pk \in {q \in Objects(db, model) :
                                             relation_config(model) # <<>>}}] :
        /\ r.short => r.post_status = 200
        /\ to_create_qs(db, model) = {} => (r.post_status = 200 /\ ~r.short)
        /\ to_update_qs(db, model, to_create_qs(db, model)) = {}
              => r.patch_status = 200}

\* one TableExporter.run of NocoDBExporter.run
table_export(db, model, r, t) ==
    export_run(db, model, r.post_status,
               Cardinality(to_create_qs(db, model)) - (IF r.short THEN 1 ELSE 0),
               r.patch_status, r.fail, t)

\* NocoDBExporter.run: the table exporters in order; an exception of one of them
\* ends the run, its stats are not merged
exporter_run(db, resp, t) ==
    Only({IF X1.exc # ""
          THEN [db |-> X1.db, exc |-> X1.exc, merged |-> <<>>]
          ELSE Only({[db |-> X2.db, exc |-> X2.exc,
                      merged |-> IF X2.exc # "" THEN merge(<<>>, "Role", X1.st)
                                 ELSE merge(merge(<<>>, "Role", X1.st),
                                            "Affiliation", X2.st)]
                     : X2 \in {table_export(X1.db, "Affiliation", resp.Affiliation, t)}})
          : X1 \in {table_export(db, "Role", resp.Role, t)}})

\* export_evidence_nocodb: the run row is created first and completed with the
\* stats of the exporter, or, when the exporter raises, with the message alone
finished_run(E, t) ==
    IF E.exc = "" THEN complete(new_run("E", t), TRUE, <<E.merged>>, "", t)
    ELSE complete(new_run("E", t), FALSE, <<>>, E.exc, t)

ExportTask ==
    /\ Tick
    /\ \E role \in Responses(inst, "Role"),
          affiliation \in Responses(inst, "Affiliation") :
         \E E \in {exporter_run(inst, [Role |-> role, Affiliation |-> affiliation],
                                   now')} :
           /\ inst' = E.db
           /\ task' = [task EXCEPT !.runs = Append(@, finished_run(E, now')),
                                   !.invocations = @ + 1, !.op = "export",
                                   !.raised = "", !.exc = E.exc,
                                   !.merged = E.merged]
    /\ UNCHANGED <<nextPk, stats, xstats, last, debug, remote, horizon, att, aw>>

\* NocoDBImporter.run is transaction.atomic: an exception rolls the tables back
importer_run(db, next, R, dbg, t) ==
    Only({IF Y.exc = "" THEN Y ELSE [Y EXCEPT !.db = db]
          : Y \in {import_run(db, next, "Role", R, dbg, t)}})

\* import_evidence_nocodb: the importer runs and an exception is logged and
\* raised again
ImportTask ==
    /\ Tick
    /\ nextPk + Cardinality({r \in remote : r.Id \notin DOMAIN in_bulk(inst, "Role")})
          <= MaxPk + 1
    /\ Cardinality(Uuids \ UsedUuids(inst, remote)) >= Len(NoUuidIds(remote))
    /\ \E Y \in {importer_run(inst, nextPk, remote, debug, now')} :
         /\ inst' = Y.db
         /\ nextPk' = Y.nextPk
         /\ stats' = Y.st
         /\ task' = [task EXCEPT !.invocations = @ + 1, !.op = "import",
                                 !.raised = Y.exc, !.exc = Y.exc, !.merged = <<>>]
    /\ UNCHANGED <<xstats, last, debug, remote, horizon, att, aw>>

InitTask ==
    InitWith(SeedDbs({"new", "exported"}, 1, {"new"}, 1), BOOLEAN,
             {R \in RowSets : Cardinality(R) <= 1}, MaxTaskTime)

NextTask == ImportTask \/ ExportTask

SpecTask == InitTask /\ [][NextTask]_vars

\* ------------------------------------------------ claims on the tasks (SpecTask)
\* the row of the latest invocation
LatestRun == task.runs[Len(task.runs)]

\* C14: every task invocation has created one ImportExportRun row and finished
\* it: finished_at is set, success with the stats as changes and empty notes
\* when the run returned, failure with the message in notes when it raised, and
\* no exception leaves the task.
C14_OneRunPerInvocation ==
    /\ Len(task.runs) = task.invocations
    /\ task.raised = ""
    /\ task.invocations > 0 =>
          /\ LatestRun.finished_at = now
          /\ task.exc = "" => /\ LatestRun.success /\ LatestRun.notes = ""
                              /\ LatestRun.changes = task.merged
          /\ task.exc # "" => ~LatestRun.success /\ LatestRun.notes = task.exc

MaxAtt == 2
MaxAttTime == 3

\* the ids of the remote attachments
AttIds == 1..MaxAtt

\* the external ids of the local sources
Sources == {1}

NoAttachment == [exists |-> FALSE, title |-> "", source |-> None, file |-> FALSE]

\* SourceImporter.collect_additional_data: the attachments of the fetched rows,
\* one per id, each with the id of the row it hangs on
AttachmentLists ==
    {L \in SUBSET [id : AttIds, title : Names, source_id : 1..2] :
        \A a, b \in L : a.id = b.id => a = b}

\* the fields the importer compares and assigns
att_fields(a) == [title |-> a.title, source |-> a.source_id]

\* TableImporter.create_or_update_instance for an attachment
create_or_update_attachment(A, a) ==
    Only({IF A0.db[a.id].exists
          THEN IF [title |-> A0.db[a.id].title, source |-> A0.db[a.id].source]
                    # att_fields(a)
               THEN [A0 EXCEPT !.db[a.id].title = a.title,
                               !.db[a.id].source = a.source_id,
                               !.st = track(@, "updated", a.id)]
               ELSE A0
          ELSE [A0 EXCEPT !.db[a.id] = [exists |-> TRUE, title |-> a.title,
                                        source |-> a.source_id, file |-> FALSE],
                          !.st = track(@, "created", a.id)]
          : A0 \in {[A EXCEPT !.st = reset_instance(@)]}})

\* the download of a new attachment: requests.get and obj.file.save
download(A, a, status) ==
    Only({IF status # 200 THEN handle_error(A1, a.id)
          ELSE [A1 EXCEPT !.db[a.id].file = TRUE]
          : A1 \in {[A EXCEPT !.downloads = Append(@, a.id)]}})

\* the body of the loop of SourceImporter.create_or_update_related_instances
attachment_step(A, a, created, status) ==
    IF a.source_id \notin Sources THEN handle_error(A, a.id)
    ELSE Only({IF ~A1.st.instance_failed /\ created THEN download(A1, a, status)
               ELSE A1
               : A1 \in {create_or_update_attachment(A, a)}})

RECURSIVE attachment_loop(_, _, _, _, _)
attachment_loop(A, L, ids, k, status) ==
    IF k > Len(ids) \/ A.exc # "" THEN A
    ELSE Only({attachment_loop(A1, L, ids, k + 1, status)
               : A1 \in {attachment_step(A, a, ~A.before[a.id].exists, status[a.id])
               : a \in {x \in L : x.id = ids[k]}}})

\* TableImporter.delete_instances for the attachments
delete_attachments(A, existing_ids, new_ids) ==
    IF existing_ids \ new_ids # {}
    THEN [A EXCEPT !.db = [i \in AttIds |->
                              IF i \in existing_ids \ new_ids THEN NoAttachment
                              ELSE A.db[i]],
                   !.st = track(@, "deleted", Cardinality(existing_ids \ new_ids))]
    ELSE A

\* SourceImporter.create_or_update_related_instances; status[id] is the status
\* of the response to the download of attachment id
attachment_pass(db, L, dbg, status) ==
    Only({IF A1.exc # "" THEN A1
          ELSE delete_attachments(A1, {i \in AttIds : db[i].exists},
                                  {a.id : a \in L})
          : A1 \in {attachment_loop([op |-> "pass", db |-> db, before |-> db,
                                     remote |-> L, st |-> EmptyImportStats,
                                     exc |-> "", debug |-> dbg, downloads |-> <<>>,
                                     status |-> status],
                                    L, SortedSeq({a.id : a \in L}), 1, status)}})

AttachmentPass ==
    /\ Tick
    /\ \E status \in [AttIds -> {200, 500}] :
         /\ \A i \in AttIds : (att.db[i].exists \/ i \notin {a.id : a \in att.remote})
                                 => status[i] = 200
         /\ att' = attachment_pass(att.db, att.remote, debug, status)
    /\ UNCHANGED <<inst, nextPk, stats, xstats, last, debug, remote, horizon, task, aw>>

\* local attachments of earlier runs have their file
InitAttach ==
    /\ CoreIdle(BOOLEAN, MaxAttTime)
    /\ task = NoTask
    /\ aw = Idle
    /\ \E L \in AttachmentLists :
       \E have \in SUBSET AttIds :
          att = [op |-> "init",
                 db |-> [i \in AttIds |->
                           IF i \in have
                           THEN [exists |-> TRUE, title |-> "a", source |-> 1,
                                 file |-> TRUE]
                           ELSE NoAttachment],
                 before |-> [i \in AttIds |-> NoAttachment], remote |-> L,
                 st |-> EmptyImportStats, exc |-> "", debug |-> debug,
                 downloads |-> <<>>, status |-> [i \in AttIds |-> 200]]

NextAttach == AttachmentPass

SpecAttach == InitAttach /\ [][NextAttach]_vars

\* ------------------------------------------------ claims (SpecAttach)
\* the attachments of the fetched rows that hang on a local source
Downloadable == {a \in att.remote : a.source_id \in Sources}

\* C13: in every attachment pass the file of an attachment is requested exactly
\* when no local attachment with that id has a stored file, so that a file whose
\* download failed is requested again by the next run; a failed download is
\* recorded, and the pass still handles the other attachments and ends normally.
C13_DownloadUnlessStored ==
    att.op = "pass" =>
        /\ att.exc = ""
        /\ \A a \in Downloadable :
              /\ Occurrences(att.downloads, a.id)
                    = (IF att.before[a.id].file THEN 0 ELSE 1)
              /\ att.status[a.id] # 200 /\ ~att.before[a.id].file
                    => Occurrences(att.st.skipped, a.id) = 1

\* ============================= abgeordnetenwatch.py, the helper model importers
\* Parliaments, elections and legislative periods are keyed by their aw_id; a
\* date is a day number, None when absent.  An organization is described by the
\* name of the parliament whose fraction it is ("" when it is no fraction).
MaxAw == 2
MaxAwTime == 4

AwIds == 1..MaxAw
OrgPks == 1..3
ParlNames == {"p", "q"}

\* a row of a helper table that does not exist
NoHelper ==
    [exists |-> FALSE, name |-> "", fraction |-> None, parliament |-> None,
     election |-> None, start_date |-> None, end_date |-> None]

\* model.objects.values_list("aw_id", flat=True)
existing_ids(table) == {i \in AwIds : table[i].exists}

\* Parliament.find_matching_fraction without the check for several matches
find_any_fraction(orgs, name) ==
    LET matching == {o \in OrgPks : orgs[o] = name}
    IN  IF matching = {} THEN [err |-> TRUE, fraction |-> None]
        ELSE [err |-> FALSE, fraction |-> CHOOSE o \in matching : TRUE]

\* Parliament.find_matching_fraction: ValueError unless exactly one organization
\* matches the name of the parliament
find_matching_fraction(orgs, name) ==
    LET matching == {o \in OrgPks : orgs[o] = name}
    IN  IF Cardinality(matching) # 1 THEN [err |-> TRUE, fraction |-> None]
        ELSE [err |-> FALSE, fraction |-> CHOOSE o \in matching : TRUE]

\* ParliamentImporter.process_row
parliament_row(H, row) ==
    Only({IF f.err THEN [H EXCEPT !.exc = "ImportError"]
          ELSE [H EXCEPT !.obj_data =
                   @ \cup {[NoHelper EXCEPT !.exists = TRUE, !.name = row.label,
                                            !.fraction = f.fraction]
                             @@ [id |-> row.id]}]
          : f \in {find_matching_fraction(H.orgs, row.label)}})

\* PeriodImporter.get_parliament: the parliaments are those of the start of the run
get_parliament(H, parliament_id) ==
    IF H.before.parliament[parliament_id].exists
    THEN [err |-> FALSE, parliament |-> parliament_id]
    ELSE [err |-> TRUE, parliament |-> None]

\* the election is the target of the one-to-one link of some legislative period
linked(periods, election_id) ==
    \E i \in AwIds : periods[i].exists /\ periods[i].election = election_id

\* LegislativePeriodImporter.get_election: None for an unknown election, an
\* error for one that already has a legislative period
get_election(H, election_id) ==
    IF election_id = None \/ ~H.before.election[election_id].exists
    THEN [err |-> FALSE, election |-> None]
    ELSE IF linked(H.before.period, election_id)
         THEN [err |-> TRUE, election |-> None]
    ELSE [err |-> FALSE, election |-> election_id]

\* ElectionImporter.process_row
election_row(H, row) ==
    [H EXCEPT !.obj_data =
        @ \cup {[NoHelper EXCEPT !.exists = TRUE, !.name = row.label,
                                 !.parliament = row.parliament,
                                 !.start_date = row.start_date_period,
                                 !.end_date = row.election_date]
                  @@ [id |-> row.id]}]

\* LegislativePeriodImporter.process_row with get_election_id
period_row(H, row) ==
    [H EXCEPT !.obj_data =
        @ \cup {[NoHelper EXCEPT !.exists = TRUE, !.name = row.label,
                                 !.parliament = row.parliament,
                                 !.election = row.previous_period,
                                 !.start_date = row.start_date_period,
                                 !.end_date = row.end_date_period]
                  @@ [id |-> row.id]}]

\* process_row of the importer of one entity type
process_row(H, kind, row) ==
    CASE kind = "parliament" -> parliament_row(H, row)
      [] kind = "election" -> election_row(H, row)
      [] OTHER -> period_row(H, row)

RECURSIVE collect_data(_, _, _, _, _)
\* HelperModelImporter.collect_data: the rows in the order of the response; the
\* first error ends the run
collect_data(H, kind, rows, ids, k) ==
    IF k > Len(ids) \/ H.exc # "" THEN H
    ELSE Only({collect_data(H1, kind, rows, ids, k + 1)
               : H1 \in {process_row(H, kind, row) : row \in {r \in rows : r.id = ids[k]}}})

\* create_instance of the importer of one entity type: the instance, or an error
create_instance(H, kind, data) ==
    CASE kind = "parliament" -> [err |-> FALSE, obj |-> data]
      [] kind = "election" ->
            [err |-> get_parliament(H, data.parliament).err, obj |-> data]
      [] OTHER ->
            Only({[err |-> get_parliament(H, data.parliament).err \/ e.err,
                   obj |-> [data EXCEPT !.election = e.election]]
                  : e \in {get_election(H, data.election)}})

\* the one-to-one link to an election is violated by the rows of one bulk_create
link_clash(new_rows) ==
    \E a, b \in new_rows : a.id # b.id /\ a.election # None /\ a.election = b.election

\* the table after objects.bulk_create(to_create)
bulk_create(table, to_create) ==
    [i \in AwIds |->
        IF \E d \in to_create : d.id = i
        THEN LET d == CHOOSE x \in to_create : x.id = i
             IN  [f \in DOMAIN NoHelper |-> d[f]]
        ELSE table[i]]

\* create_or_update_instances that builds an instance for every collected row
create_all_instances(H, kind) ==
    LET built == {create_instance(H, kind, d) : d \in H.obj_data}
        to_create == {c.obj : c \in built}
    IN  IF \E c \in built : c.err THEN [H EXCEPT !.exc = "ImportError"]
        ELSE IF link_clash(to_create) THEN [H EXCEPT !.exc = "IntegrityError"]
        ELSE [H EXCEPT !.tables[kind] = bulk_create(@, to_create)]

\* HelperModelImporter.create_or_update_instances
create_or_update_instances(H, kind) ==
    LET missing_ids == {d.id : d \in H.obj_data} \ existing_ids(H.before[kind])
        built == {create_instance(H, kind, d) : d \in {x \in H.obj_data : x.id \in missing_ids}}
        to_create == {c.obj : c \in built}
    IN  IF \E c \in built : c.err THEN [H EXCEPT !.exc = "ImportError"]
        ELSE IF link_clash(to_create) THEN [H EXCEPT !.exc = "IntegrityError"]
        ELSE [H EXCEPT !.tables[kind] = bulk_create(@, to_create)]

\* AbgeordnetenwatchDataImporter.run of a helper model importer; rows is the
\* response of the API
helper_run(orgs, tables, kind, rows) ==
    Only({IF H1.exc # "" \/ H1.obj_data = {} THEN H1
          ELSE create_or_update_instances(H1, kind)
          : H1 \in {collect_data([op |-> kind, exc |-> "", orgs |-> orgs,
                                  tables |-> tables, before |-> tables,
                                  fetched |-> rows, obj_data |-> {}],
                                 kind, rows,
                                 SortedSeq({r.id : r \in rows}), 1)}})

\* the rows of an entity type the API holds: ids 1..k, one row per id
Segment(S) ==
    {R \in SUBSET S : /\ \A a, b \in R : a.id = b.id => a = b
                      /\ \A a \in R : \A i \in 1..a.id : \E b \in R : b.id = i}

RemoteParliaments == Segment([id : AwIds, label : ParlNames])

RemoteElections ==
    Segment([id : AwIds, label : {"e"}, parliament : {1},
             start_date_period : {1}, election_date : {2}])

RemotePeriods ==
    Segment([id : AwIds, label : {"l"}, parliament : {1},
             previous_period : {None, 1},
             start_date_period : {2}, end_date_period : {3}])

\* the response to a request that carries id[notin] for the existing ids: the
\* API applies the filter, or returns rows regardless of it
Responses_aw(rows, existing) ==
    {{r \in rows : r.id \notin existing}, rows}

\* ParliamentImporter().run()
ParliamentImport ==
    /\ now < horizon
    /\ \E rows \in Responses_aw(aw.remote.parliament, existing_ids(aw.tables.parliament)) :
         \E H \in {helper_run(aw.orgs, aw.tables, "parliament", rows)} :
            aw' = H @@ [remote |-> aw.remote]
    /\ now' = now + 1
    /\ UNCHANGED <<inst, nextPk, stats, xstats, last, debug, remote, horizon, task, att>>

\* ElectionImporter().run()
ElectionImport ==
    /\ now < horizon
    /\ \E rows \in Responses_aw(aw.remote.election, existing_ids(aw.tables.election)) :
         \E H \in {helper_run(aw.orgs, aw.tables, "election", rows)} :
            aw' = H @@ [remote |-> aw.remote]
    /\ now' = now + 1
    /\ UNCHANGED <<inst, nextPk, stats, xstats, last, debug, remote, horizon, task, att>>

\* LegislativePeriodImporter().run()
LegislativePeriodImport ==
    /\ now < horizon
    /\ \E rows \in Responses_aw(aw.remote.period, existing_ids(aw.tables.period)) :
         \E H \in {helper_run(aw.orgs, aw.tables, "period", rows)} :
            aw' = H @@ [remote |-> aw.remote]
    /\ now' = now + 1
    /\ UNCHANGED <<inst, nextPk, stats, xstats, last, debug, remote, horizon, task, att>>

EmptyHelperTables ==
    [parliament |-> [i \in AwIds |-> NoHelper],
     election |-> [i \in AwIds |-> NoHelper],
     period |-> [i \in AwIds |-> NoHelper]]

\* parliament 1 with its election and the legislative period that followed it
SeededHelperTables ==
    [parliament |-> [i \in AwIds |->
        IF i = 1 THEN [NoHelper EXCEPT !.exists = TRUE, !.name = "old", !.fraction = 1]
        ELSE NoHelper],
     election |-> [i \in AwIds |->
        IF i = 1 THEN [NoHelper EXCEPT !.exists = TRUE, !.name = "old", !.parliament = 1,
                                       !.start_date = 1, !.end_date = 1]
        ELSE NoHelper],
     period |-> [i \in AwIds |->
        IF i = 1 THEN [NoHelper EXCEPT !.exists = TRUE, !.name = "old", !.parliament = 1,
                                       !.election = 1, !.start_date = 1, !.end_date = 2]
        ELSE NoHelper]]

\* The organizations exist; the helper tables are empty or hold the rows of
\* parliament 1; the API holds some rows of each entity type.
InitAwHelper ==
    /\ CoreIdle({FALSE}, MaxAwTime)
    /\ task = NoTask /\ att = Idle
    /\ \E orgs \in [OrgPks -> {""} \cup ParlNames], P \in RemoteParliaments,
          E \in RemoteElections, L \in RemotePeriods,
          T \in {EmptyHelperTables, SeededHelperTables} :
         /\ Cardinality(E) <= 1
         /\ P # {} /\ L # {}
         /\ aw = [op |-> "init", exc |-> "", orgs |-> orgs,
                  tables |-> T, before |-> T,
                  fetched |-> {}, obj_data |-> {},
                  remote |-> [parliament |-> P, election |-> E, period |-> L]]

NextAwHelper == ParliamentImport \/ ElectionImport \/ LegislativePeriodImport

SpecAwHelper == InitAwHelper /\ [][NextAwHelper]_vars

\* ------------------------------------------------------------ C17, C20 claims
\* the organizations that are a fraction of the parliament of a fetched row
Matching(row) == {o \in OrgPks : aw.orgs[o] = row.label}

\* the rows of the latest response whose aw_id was not present locally
FetchedMissing == {r \in aw.fetched : ~aw.before[aw.op][r.id].exists}

\* C17: a run of the ParliamentImporter whose fetched rows all have exactly one
\* matching organization ends without error and leaves, for each fetched row
\* that was not present, one Parliament with the name of the row and that
\* organization as its fraction; a run in which some fetched row has no or
\* several matching organizations raises ImportError and creates no Parliament.
C17_FractionResolved ==
    aw.op = "parliament" =>
        IF \E r \in aw.fetched : Cardinality(Matching(r)) # 1
        THEN aw.exc = "ImportError" /\ aw.tables = aw.before
        ELSE /\ aw.exc = ""
             /\ \A r \in FetchedMissing :
                   /\ aw.tables.parliament[r.id].exists
                   /\ aw.tables.parliament[r.id].name = r.label
                   /\ Matching(r) = {aw.tables.parliament[r.id].fraction}

\* a run that fetched a row with a unique fraction and a row with two matching
\* organizations, and raised
C17_Witness ==
    /\ aw.op = "parliament" /\ aw.exc = "ImportError"
    /\ \E r \in FetchedMissing : Cardinality(Matching(r)) = 1
    /\ \E r \in FetchedMissing : Cardinality(Matching(r)) = 2
    /\ \A i \in AwIds : ~aw.tables.parliament[i].exists

\* the row the importer builds from a fetched row
Built(kind, r) ==
    CASE kind = "parliament" ->
            [NoHelper EXCEPT !.exists = TRUE, !.name = r.label,
                             !.fraction = CHOOSE o \in Matching(r) : TRUE]
      [] kind = "election" ->
            [NoHelper EXCEPT !.exists = TRUE, !.name = r.label,
                             !.parliament = r.parliament,
                             !.start_date = r.start_date_period,
                             !.end_date = r.election_date]
      [] OTHER ->
            [NoHelper EXCEPT !.exists = TRUE, !.name = r.label,
                             !.parliament = r.parliament,
                             !.election =
                                 IF r.previous_period # None
                                    /\ aw.before.election[r.previous_period].exists
                                 THEN r.previous_period ELSE None,
                             !.start_date = r.start_date_period,
                             !.end_date = r.end_date_period]

HelperKinds == {"parliament", "election", "period"}

\* C20: a run of a helper importer leaves every helper row that existed before
\* it exactly as it was, whatever the response holds for its aw_id, and touches
\* no table but its own; a run that ends without error creates exactly the
\* fetched rows whose aw_id was not present, a run that raises creates nothing.
C20_OnlyEverCreate ==
    aw.op \in HelperKinds =>
        /\ \A k \in HelperKinds : \A i \in AwIds :
              aw.before[k][i].exists => aw.tables[k][i] = aw.before[k][i]
        /\ \A k \in HelperKinds \ {aw.op} : aw.tables[k] = aw.before[k]
        /\ aw.exc # "" => aw.tables = aw.before
        /\ aw.exc = "" =>
              \A i \in AwIds :
                 ~aw.before[aw.op][i].exists =>
                    IF \E r \in aw.fetched : r.id = i
                    THEN aw.tables[aw.op][i] =
                            Built(aw.op, CHOOSE r \in aw.fetched : r.id = i)
                    ELSE ~aw.tables[aw.op][i].exists

\* a run that fetched a row for an existing aw_id with other content and a row
\* for a missing aw_id, and created the missing one
C20_Witness ==
    /\ aw.op = "period" /\ aw.exc = ""
    /\ \E r \in aw.fetched :
          /\ aw.before.period[r.id].exists
          /\ aw.before.period[r.id] # Built("period", r)
    /\ \E r \in FetchedMissing : aw.tables.period[r.id].exists

\* ============================== abgeordnetenwatch.py, the main model importers
\* Persons and affiliations are keyed by their aw_id.  A text that may be null
\* is a sequence: <<>> is None, <<"">> the empty string; a date is a day
\* number, None when absent.  The field last_synced_state is a set: empty for
\* {}, else the one dictionary.
MaxMainTime == 3

PolIds == {1}
AffIds == {1, 2}
Today == 2
Dates == 1..3
CandidateRole == 1
MandateRole == 2

NoPerson ==
    [exists |-> FALSE, aw_id |-> None, first_name |-> "", last_name |-> "",
     title |-> <<>>, wikidata_id |-> <<>>, last_synced_state |-> {},
     updated_at |-> None, synced_at |-> None]

NoAffiliation ==
    [exists |-> FALSE, aw_id |-> None, person_id |-> None, organization_id |-> None,
     role_id |-> None, start_date |-> None, end_date |-> None, comment |-> "",
     last_synced_state |-> {}, updated_at |-> None, synced_at |-> None]

\* the keys of the data of a politician and of a candidacy or mandate
PersonFields == <<"aw_id", "first_name", "last_name", "title", "wikidata_id">>

AffiliationFields ==
    <<"aw_id", "person_id", "organization_id", "role_id", "start_date", "end_date",
      "comment">>

FieldsOf(model) == IF model = "Person" THEN PersonFields ELSE AffiliationFields

\* utils.to_dict of a person or an affiliation
fields_dict(model, r) == [f \in {FieldsOf(model)[i] : i \in DOMAIN FieldsOf(model)} |-> r[f]]

\* a test of the old value that every value passes
always_falsy(field, v) == TRUE

\* Python's "not value" for the type of the field
Falsy(field, v) ==
    CASE field \in {"first_name", "last_name", "comment"} -> v = ""
      [] field \in {"title", "wikidata_id"} -> v = <<>> \/ v = <<"">>
      [] OTHER -> v = None

\* filter_future_date that keeps every date
keep_future_date(d, today) == d

\* utils.filter_future_date: a date after today is None
filter_future_date(d, today) == IF d # None /\ d > today THEN None ELSE d

\* Python's "a or b" on dates
OrDate(a, b) == IF a # None THEN a ELSE b

RECURSIVE update_fields(_, _, _, _)
\* the loop of MainModelImporter.update_instance: a value is set where the old
\* value is falsy and not equal to the new one.  utils.equals converts a string
\* to a date or UUID only for an old value of that type, which is never falsy.
update_fields(instance, data, fields, i) ==
    IF i > Len(fields) THEN instance
    ELSE update_fields(
            IF Falsy(fields[i], instance[fields[i]]) /\ instance[fields[i]] # data[fields[i]]
            THEN [instance EXCEPT ![fields[i]] = data[fields[i]]] ELSE instance,
            data, fields, i + 1)

\* Python's None as the value of a field
IsNone(field, v) ==
    CASE field \in {"first_name", "last_name", "comment"} -> FALSE
      [] field \in {"title", "wikidata_id"} -> v = <<>>
      [] OTHER -> v = None

\* old_data.get(field) of utils.get_changes; <<>> stands for None and for a
\* missing key, old_data = {} for the empty dict
old_get(old_data, field) ==
    IF old_data = {} THEN <<>>
    ELSE Only({IF IsNone(field, d[field]) THEN <<>> ELSE <<d[field]>> : d \in old_data})

\* new_data.get(field) of utils.get_changes
new_get(new_data, field) ==
    IF IsNone(field, new_data[field]) THEN <<>> ELSE <<new_data[field]>>

\* utils.get_changes on the imported fields: the fields of new_data whose
\* value differs from the one of old_data, each with
\* its old and its new value
get_field_changes(old_data, new_data) ==
    {[field |-> f, old |-> old_get(old_data, f), new |-> new_get(new_data, f)]
     : f \in {g \in DOMAIN new_data : old_get(old_data, g) # new_get(new_data, g)}}

\* get_changes against the values the instance had before the update
changes_of_update(model, before_obj, new_obj) ==
    get_field_changes({fields_dict(model, before_obj)}, fields_dict(model, new_obj))

\* ImportStatsCollection.track_updated: an entry with the diff if it is not
\* empty
track_updated(st, model, old_obj_data, new_obj) ==
    Only({IF diff # {}
          THEN st \cup {[op |-> "updated", model |-> model, id |-> new_obj.aw_id,
                         diff |-> diff]}
          ELSE st
          : diff \in {get_field_changes(old_obj_data, fields_dict(model, new_obj))}})

\* ImportStatsCollection.track_created
track_created(st, model, obj) ==
    st \cup {[op |-> "created", model |-> model, id |-> obj.aw_id, diff |-> {}]}

Table(model) == IF model = "Person" THEN "persons" ELSE "affs"

\* MainModelImporter.update_instance: saved and tracked only if a value was set
update_instance(M, model, aw_id, data) ==
    Only({IF new = M[Table(model)][aw_id] THEN M
          ELSE [M EXCEPT ![Table(model)][aw_id] = save(new, FALSE, M.t),
                         !.saved = @ \cup {<<model, aw_id>>},
                         !.stats = track_updated(@, model, new.last_synced_state, new)]
          : new \in {update_fields(M[Table(model)][aw_id], data, FieldsOf(model), 1)}})

\* MainModelImporter.create_instance
create_main_instance(M, model, aw_id, data) ==
    [M EXCEPT ![Table(model)][aw_id] = save(data, FALSE, M.t),
              !.saved = @ \cup {<<model, aw_id>>},
              !.stats = track_created(@, model, data)]

RECURSIVE create_or_update_main(_, _, _, _, _, _)
\* MainModelImporter.create_or_update_instances; existing is the in_bulk of the
\* construction of the importer
create_or_update_main(M, model, existing, obj_data, ids, k) ==
    IF k > Len(ids) THEN M
    ELSE Only({create_or_update_main(
                  IF ids[k] \in existing THEN update_instance(M, model, ids[k], data)
                  ELSE create_main_instance(M, model, ids[k], data),
                  model, existing, obj_data, ids, k + 1)
               : data \in {[f \in DOMAIN d \ {"id"} |-> d[f]]
                           : d \in {x \in obj_data : x.id = ids[k]}}})

\* PoliticianImporter.process_row
politician_data(row) ==
    [NoPerson EXCEPT !.exists = TRUE, !.aw_id = row.id,
                     !.first_name = row.first_name, !.last_name = row.last_name,
                     !.title = IF row.field_title \in {<<>>, <<"">>} THEN <<"">>
                               ELSE row.field_title,
                     !.wikidata_id = row.qid_wikidata]
        @@ [id |-> row.id]

\* PoliticianImporter(politician_ids).run(); politician_ids = {} stands for None
politician_run(M, politician_ids) ==
    LET existing == {i \in PolIds : M.persons[i].exists}
        missing_ids == politician_ids \ existing
        rows == IF politician_ids = {} THEN M.remote.politicians
                ELSE {r \in M.remote.politicians : r.id \in missing_ids}
        obj_data == {politician_data(r) : r \in rows}
    IN  IF politician_ids # {} /\ missing_ids = {} THEN M
        ELSE create_or_update_main([M EXCEPT !.requests = @ + 1], "Person", existing,
                                   obj_data, SortedSeq({r.id : r \in rows}), 1)

\* AffiliationImporter.get_period
get_period(periods, period_id) ==
    IF periods[period_id].exists THEN [err |-> FALSE, period |-> periods[period_id]]
    ELSE [err |-> TRUE, period |-> periods[period_id]]

\* the data AffiliationImporter.process_rows builds for one row
affiliation_data(row, period, person, role, today) ==
    [NoAffiliation EXCEPT
        !.exists = TRUE, !.aw_id = row.id, !.person_id = person,
        !.organization_id = period.fraction, !.role_id = role,
        !.start_date = OrDate(row.start_date, period.start_date),
        !.end_date = filter_future_date(OrDate(row.end_date, period.end_date), today),
        !.comment = IF row.info = <<>> THEN "" ELSE row.info[1]]
        @@ [id |-> row.id]

RECURSIVE affiliation_rows(_, _, _, _, _, _)
\* the loop of AffiliationImporter.process_rows: an unknown period is an
\* ImportError, a politician the API did not deliver an AttributeError
affiliation_rows(M, periods, role, rows, ids, k) ==
    IF k > Len(ids) \/ M.exc # "" THEN M
    ELSE Only({affiliation_rows(
                  IF get_period(periods, row.parliament_period).err
                  THEN [M EXCEPT !.exc = "ImportError"]
                  ELSE IF ~M.persons[row.politician].exists
                  THEN [M EXCEPT !.exc = "AttributeError"]
                  ELSE [M EXCEPT !.obj_data = @ \cup
                          {affiliation_data(row,
                                            get_period(periods, row.parliament_period).period,
                                            row.politician, role, M.today)}],
                  periods, role, rows, ids, k + 1)
               : row \in {r \in rows : r.id = ids[k]}})

\* AffiliationImporter.process_rows with get_persons
process_rows(M, periods, role, rows) ==
    Only({affiliation_rows(M1, periods, role, rows, SortedSeq({r.id : r \in rows}), 1)
          : M1 \in {politician_run(M, {r.politician : r \in rows})}})

\* a construction that checks nothing
affiliation_init_unchecked(M, role_uuid, extra) == ""

\* AffiliationImporter.__init__ followed by the check of the subclass: the
\* exception the construction raises, "" if none
affiliation_init(M, role_uuid, extra) ==
    IF role_uuid = None THEN "ImportError"
    ELSE IF role_uuid \notin M.roles THEN "ImportError"
    ELSE IF extra = None THEN "ImportError"
    ELSE ""

\* run() of a constructed CandidacyImporter or MandateImporter: the requests of
\* collect_data, process_rows for a response with rows, then
\* create_or_update_instances
affiliation_run(M, periods, role, existing, nrequests, rows) ==
    Only({IF M1.exc # "" \/ M1.obj_data = {} THEN M1
          ELSE create_or_update_main(M1, "Affiliation", existing, M1.obj_data,
                                     SortedSeq({d.id : d \in M1.obj_data}), 1)
          : M1 \in {IF rows = {} THEN [M EXCEPT !.requests = @ + nrequests]
                    ELSE process_rows([M EXCEPT !.requests = @ + nrequests],
                                      periods, role, rows)}})

\* the state an importer starts from
Started(op) ==
    [aw EXCEPT !.op = op, !.exc = "", !.t = now + 1, !.requests = 0, !.saved = {},
               !.stats = {},
               !.obj_data = {}, !.before = [persons |-> aw.persons, affs |-> aw.affs]]

\* PoliticianImporter().run()
PoliticianImport ==
    /\ Tick
    /\ aw' = politician_run(Started("politician"), {})
    /\ UNCHANGED <<inst, nextPk, stats, xstats, last, debug, remote, horizon, task, att>>

\* CandidacyImporter().run()
CandidacyImport ==
    /\ Tick
    /\ \E M \in {Started("candidacy")} :
         \E exc \in {affiliation_init(M, M.config.candidate_role_uuid, M.config.party_id)} :
            aw' = IF exc # "" THEN [M EXCEPT !.exc = exc]
                  ELSE affiliation_run(M, M.elections, M.config.candidate_role_uuid,
                                       {i \in AffIds : M.affs[i].exists}, 1,
                                       M.remote.candidacies)
    /\ UNCHANGED <<inst, nextPk, stats, xstats, last, debug, remote, horizon, task, att>>

\* MandateImporter().run(): one request for each configured fraction
MandateImport ==
    /\ Tick
    /\ \E M \in {Started("mandate")} :
         \E exc \in {affiliation_init(M, M.config.mandate_role_uuid, M.config.fractions)} :
            aw' = IF exc # "" THEN [M EXCEPT !.exc = exc]
                  ELSE affiliation_run(M, M.periods, M.config.mandate_role_uuid,
                                       {i \in AffIds : M.affs[i].exists},
                                       M.config.fractions, M.remote.mandates)
    /\ UNCHANGED <<inst, nextPk, stats, xstats, last, debug, remote, horizon, task, att>>

\* the instance after a save(sync=True) at clock reading 1
Synced(model, r) ==
    [r EXCEPT !.last_synced_state = {fields_dict(model, r)}, !.updated_at = 1,
              !.synced_at = 1]

\* the instance after a save() at clock reading 1 that no export followed
NeverSynced(r) == [r EXCEPT !.updated_at = 1]

\* the local persons of aw_id 1, with or without a title and a wikidata id
KnownPersons ==
    {[NoPerson EXCEPT !.exists = TRUE, !.aw_id = 1, !.first_name = "a",
                      !.last_name = "m", !.title = t, !.wikidata_id = w]
     : t \in {<<>>, <<"">>, <<"x">>}, w \in {<<>>, <<"x">>}}

\* a local person: absent, in sync, or never exported
LocalPersons ==
    {NoPerson} \cup {Synced("Person", p) : p \in KnownPersons}
    \cup {NeverSynced(p) : p \in KnownPersons}

\* the politicians the API holds
RemotePoliticians ==
    {{}} \cup
    {{r} : r \in [id : {1}, first_name : {"a", "b"}, last_name : {"m"},
                  field_title : {<<>>, <<"x">>, <<"y">>},
                  qid_wikidata : {<<>>, <<"y">>}]}

\* a local affiliation: absent, complete, empty, or partly filled
LocalAffiliation(aw_id, role, v) ==
    IF v = 0 THEN NoAffiliation
    ELSE Synced("Affiliation",
            [NoAffiliation EXCEPT
                !.exists = TRUE, !.aw_id = aw_id, !.person_id = 1,
                !.organization_id = 1,
                !.role_id = IF v = 2 THEN None ELSE role,
                !.start_date = IF v \in {1, 4} THEN 1 ELSE None,
                !.end_date = IF v \in {1, 3} THEN 1 ELSE None,
                !.comment = IF v \in {1, 4} THEN "x" ELSE ""])

\* the candidacy or mandate rows the API holds for an aw_id: none or one
RemoteAffiliations(aw_id) ==
    {{}} \cup
    {{r} : r \in [id : {aw_id}, politician : {1}, parliament_period : {1},
                  start_date : {None, Today}, end_date : {None} \cup (Dates \ {1}),
                  info : {<<>>, <<"y">>}]}

\* an election or legislative period of parliament 1, whose fraction is
\* organization 1
LocalPeriods ==
    {[exists |-> FALSE, fraction |-> None, start_date |-> None, end_date |-> None]}
    \cup {[exists |-> TRUE, fraction |-> 1, start_date |-> 1, end_date |-> e]
          : e \in Dates \ {Today}}

GoodConfig ==
    [candidate_role_uuid |-> CandidateRole, mandate_role_uuid |-> MandateRole,
     party_id |-> 1, fractions |-> 1]

\* FROIDE_EVIDENCECOLLECTION_ABGEORDNETENWATCH_CONFIG with one setting missing
BrokenConfigs ==
    {[GoodConfig EXCEPT !.candidate_role_uuid = None],
     [GoodConfig EXCEPT !.mandate_role_uuid = None],
     [GoodConfig EXCEPT !.party_id = None],
     [GoodConfig EXCEPT !.fractions = 0]}

AllRoles == {CandidateRole, MandateRole}

\* the settings and the fixtures an importer may meet: any person and any
\* politician under a good configuration; any affiliation, row and period
\* under a good configuration; a broken configuration or a missing role
MainScenarios ==
    [config : {GoodConfig}, roles : {AllRoles}, person : LocalPersons,
     politicians : RemotePoliticians, v : {0}, candidacies : {{}}, mandates : {{}},
     period : {p \in LocalPeriods : p.exists /\ p.end_date = 1}]
    \cup
    [config : {GoodConfig}, roles : {AllRoles},
     person : {p \in LocalPersons :
                  ~p.exists \/ (p.title = <<"x">> /\ p.wikidata_id # <<>> /\ is_synced(p))},
     politicians : {P \in RemotePoliticians :
                       \A r \in P : r.first_name = "a" /\ r.field_title = <<>>
                                    /\ r.qid_wikidata = <<>>},
     v : 0..4, candidacies : RemoteAffiliations(1), mandates : {{}},
     period : LocalPeriods]
    \cup
    [config : {GoodConfig}, roles : {AllRoles},
     person : {p \in LocalPersons :
                  p.title = <<"x">> /\ p.wikidata_id # <<>> /\ is_synced(p)},
     politicians : {{}},
     v : 0..4, candidacies : {{}}, mandates : RemoteAffiliations(2),
     period : LocalPeriods]
    \cup
    {s \in [config : {GoodConfig} \cup BrokenConfigs, roles : SUBSET AllRoles,
            person : {p \in LocalPersons : p.first_name = ""},
            politicians : {P \in RemotePoliticians :
                              \A r \in P : r.first_name = "a" /\ r.field_title = <<>>
                                           /\ r.qid_wikidata = <<>>},
            v : {0},
            candidacies : {R \in RemoteAffiliations(1) :
                              \A r \in R : r.start_date = None /\ r.end_date = None
                                           /\ r.info = <<>>},
            mandates : {R \in RemoteAffiliations(2) :
                              \A r \in R : r.start_date = None /\ r.end_date = None
                                           /\ r.info = <<>>},
            period : {p \in LocalPeriods : p.exists /\ p.end_date = 1}] :
        /\ s.config # GoodConfig \/ s.roles # AllRoles
        /\ s.config # GoodConfig => s.roles = AllRoles
        /\ s.candidacies # {} /\ s.mandates # {}}

InitAwMain ==
    /\ CoreIdle({FALSE}, MaxMainTime)
    /\ task = NoTask /\ att = Idle
    /\ \E s \in MainScenarios :
         aw = [op |-> "init", exc |-> "", t |-> now, config |-> s.config, roles |-> s.roles,
               today |-> Today,
               persons |-> [i \in PolIds |-> s.person],
               affs |-> [i \in AffIds |->
                           LocalAffiliation(i, IF i = 1 THEN CandidateRole ELSE MandateRole,
                                            s.v)],
               elections |-> [i \in {1} |-> s.period],
               periods |-> [i \in {1} |-> s.period],
               remote |-> [politicians |-> s.politicians, candidacies |-> s.candidacies,
                           mandates |-> s.mandates],
               requests |-> 0, saved |-> {}, stats |-> {}, obj_data |-> {},
               before |-> [persons |-> [i \in PolIds |-> NoPerson],
                           affs |-> [i \in AffIds |-> NoAffiliation]]]

NextAwMain == PoliticianImport \/ CandidacyImport \/ MandateImport

SpecAwMain == InitAwMain /\ [][NextAwMain]_vars

\* ------------------------------------------------------- C11, C18, C19 claims
\* a value that is null or empty
EmptyValue(field, v) ==
    IF field \in {"first_name", "last_name", "comment"} THEN v = ""
    ELSE IF field \in {"title", "wikidata_id"} THEN Len(v) = 0 \/ v[1] = ""
    ELSE v = None

\* the imported fields of a model
Imported(model) ==
    IF model = "Person"
    THEN {"aw_id", "first_name", "last_name", "title", "wikidata_id"}
    ELSE {"aw_id", "person_id", "organization_id", "role_id", "start_date",
          "end_date", "comment"}

\* the existing instances the latest run met, each with the remote data for it
MetPersons ==
    IF aw.op # "politician" THEN {}
    ELSE {[old |-> aw.before.persons[r.id], new |-> aw.persons[r.id],
           data |-> [aw_id |-> r.id, first_name |-> r.first_name,
                     last_name |-> r.last_name,
                     title |-> IF r.field_title = <<>> THEN <<"">> ELSE r.field_title,
                     wikidata_id |-> r.qid_wikidata]]
          : r \in {x \in aw.remote.politicians : aw.before.persons[x.id].exists}}

MetAffiliations ==
    IF aw.op \notin {"candidacy", "mandate"} \/ aw.exc # "" THEN {}
    ELSE {[old |-> aw.before.affs[d.id], new |-> aw.affs[d.id], data |-> d]
          : d \in {x \in aw.obj_data : aw.before.affs[x.id].exists}}

PreservesLocal(model, m) ==
    /\ \A f \in Imported(model) :
          /\ ~EmptyValue(f, m.old[f]) => m.new[f] = m.old[f]
          /\ EmptyValue(f, m.old[f]) => m.new[f] = m.data[f]
    /\ m.new = m.old =>
          /\ <<model, m.old.aw_id>> \notin aw.saved
          /\ \A e \in aw.stats : ~(e.model = model /\ e.id = m.old.aw_id)

\* C11: for an existing person or affiliation the import meets, every imported
\* field with a non-empty local value keeps it, every imported field with an
\* empty or null local value has the remote value afterwards, and an instance
\* none of whose fields changed is not saved and has no stats entry.
C11_LocalValuesKept ==
    /\ \A m \in MetPersons : PreservesLocal("Person", m)
    /\ \A m \in MetAffiliations : PreservesLocal("Affiliation", m)

\* a person whose title differs from the remote one and is kept, and whose
\* missing wikidata id is adopted
C11_Witness ==
    \E m \in MetPersons :
        /\ m.old.title = <<"x">> /\ m.data.title = <<"y">> /\ m.new.title = <<"x">>
        /\ m.old.first_name # m.data.first_name
        /\ m.old.wikidata_id = <<>> /\ m.new.wikidata_id = <<"y">>
        /\ <<"Person", 1>> \in aw.saved

\* the rows of the latest candidacy or mandate run and the periods it used
RunRows == IF aw.op = "candidacy" THEN aw.remote.candidacies ELSE aw.remote.mandates

RunPeriods == IF aw.op = "candidacy" THEN aw.elections ELSE aw.periods

\* the end date of a row before the future is suppressed
RowEnd(r) ==
    IF r.end_date # None THEN r.end_date ELSE RunPeriods[r.parliament_period].end_date

\* C18: an affiliation created from a candidacy or mandate row has the start
\* date of the row, or that of the election or legislative period if the row
\* has none; its end date is that of the row, or that of the period if the row
\* has none, and None if that date is after today.
C18_DateFallback ==
    (aw.op \in {"candidacy", "mandate"} /\ aw.exc = "") =>
        \A r \in RunRows :
            ~aw.before.affs[r.id].exists =>
                /\ aw.affs[r.id].exists
                /\ aw.affs[r.id].start_date =
                      (IF r.start_date # None THEN r.start_date
                       ELSE RunPeriods[r.parliament_period].start_date)
                /\ aw.affs[r.id].end_date =
                      (IF RowEnd(r) # None /\ RowEnd(r) > aw.today THEN None ELSE RowEnd(r))

\* a row without dates in a period that ends after today: the period's start
\* date, no end date
C18_Witness ==
    /\ aw.op = "mandate" /\ aw.exc = ""
    /\ \E r \in RunRows :
          /\ ~aw.before.affs[r.id].exists
          /\ r.start_date = None /\ r.end_date = None
          /\ RunPeriods[r.parliament_period].end_date > aw.today
          /\ aw.affs[r.id].exists
          /\ aw.affs[r.id].start_date = 1 /\ aw.affs[r.id].end_date = None

\* the configuration the construction of the latest importer rejects
BadConfig ==
    \/ /\ aw.op = "candidacy"
       /\ \/ aw.config.candidate_role_uuid = None
          \/ aw.config.candidate_role_uuid \notin aw.roles
          \/ aw.config.party_id = None
    \/ /\ aw.op = "mandate"
       /\ \/ aw.config.mandate_role_uuid = None
          \/ aw.config.mandate_role_uuid \notin aw.roles
          \/ aw.config.fractions = 0

\* C19: a CandidacyImporter or MandateImporter whose role UUID is missing or
\* matches no role, or whose party id or fractions are missing, raises
\* ImportError, issues no request, and leaves persons and affiliations alone.
C19_ConfigFailsFast ==
    BadConfig =>
        /\ aw.exc = "ImportError"
        /\ aw.requests = 0
        /\ aw.persons = aw.before.persons /\ aw.affs = aw.before.affs

\* a mandate import without fractions although the API holds a mandate of a
\* politician who is not yet a person
C19_Witness ==
    /\ aw.op = "mandate" /\ aw.config.fractions = 0
    /\ MandateRole \in aw.roles
    /\ aw.remote.mandates # {} /\ aw.remote.politicians # {}
    /\ ~aw.persons[1].exists
    /\ aw.exc = "ImportError" /\ aw.requests = 0

\* ================================================ exporter, the link pass
\* the position of a relation field in the relation config
Pos(f) == CHOOSE i \in DOMAIN relation_config(last.model) : relation_config(last.model)[i] = f

\* the link requests of the latest run for the field f of pk
CallsFor(pk, f) ==
    {i \in DOMAIN last.calls : last.calls[i].pk = pk /\ last.calls[i].field_id = FieldId(f)}

\* a link request for a changed relation of pk before f failed
EarlierFailed(pk, f) ==
    \E g \in ChangedFields(pk) :
        Pos(g) < Pos(f) /\ \E i \in CallsFor(pk, g) : ~last.calls[i].ok

\* C24 as stated: for an instance created or updated remotely in the run, one
\* link request is made for each relation field that is set and differs from
\* the last synced state, and none for any other relation field.
C24_LinkIffChanged ==
    \A pk \in Pks : (CreatedRemotely(pk) \/ UpdatedRemotely(pk)) =>
        \A f \in Range(relation_config(last.model)) :
            Cardinality(CallsFor(pk, f)) = IF f \in ChangedFields(pk) THEN 1 ELSE 0

\* C24 (amended): for an instance created or updated remotely in the run, no
\* link request is made for a relation field that is null or equal to the last
\* synced state; for a field that is set and differs, exactly one request is
\* made, naming the external ids of the record and of the target, unless a
\* changed relation of the instance points to a row without external_id or a
\* request for an earlier changed field of the instance failed, and then none.
C24_LinkIffChangedAndReached ==
    \A pk \in Pks : (CreatedRemotely(pk) \/ UpdatedRemotely(pk)) =>
        \A f \in Range(relation_config(last.model)) :
            /\ Cardinality(CallsFor(pk, f)) =
                  IF f \in ChangedFields(pk) /\ ~MissingTarget(pk) /\ ~EarlierFailed(pk, f)
                  THEN 1 ELSE 0
            /\ \A i \in CallsFor(pk, f) :
                  /\ last.calls[i].record_id = inst[pk].external_id
                  /\ last.calls[i].rel_instance_id = inst[Rel(inst[pk], f)].external_id

\* an updated affiliation with an unchanged relation, for which no request was
\* made, and a changed one, for which one was
C24_Witness ==
    \E pk \in Pks :
        /\ UpdatedRemotely(pk)
        /\ \E f \in Range(relation_config(last.model)) :
              /\ Rel(last.before[pk], f) # None /\ f \notin ChangedFields(pk)
              /\ CallsFor(pk, f) = {}
        /\ \E f \in ChangedFields(pk) :
              Cardinality(CallsFor(pk, f)) = 1 /\ \A i \in CallsFor(pk, f) : last.calls[i].ok

\* the link requests of the latest run for pk
CallsOf(pk) == {i \in DOMAIN last.calls : last.calls[i].pk = pk}

\* the relation field a link request is about
FieldOfCall(i) ==
    CHOOSE f \in Range(relation_config(last.model)) : FieldId(f) = last.calls[i].field_id

\* C30: the link requests of an instance follow the order of the relation
\* config, a failed request is the last one made for the instance in the run,
\* and the stats hold at most one failed-link entry for it.
C30_StopAtFirstFailure ==
    last.op = "export" =>
        \A pk \in Objects(last.before, last.model) :
            /\ \A i, j \in CallsOf(pk) : i < j => Pos(FieldOfCall(i)) < Pos(FieldOfCall(j))
            /\ \A i \in FailedCalls(pk) : \A j \in CallsOf(pk) : j <= i
            /\ inst[pk].external_id # None => Cardinality(FailedLinkEntries(pk)) <= 1

\* an instance with three changed relations whose first link request failed:
\* no request for the other two, one failed-link entry
C30_Witness ==
    \E pk \in Pks :
        /\ CreatedRemotely(pk) /\ ~MissingTarget(pk)
        /\ Cardinality(ChangedFields(pk)) = 3
        /\ Cardinality(CallsOf(pk)) = 1 /\ FailedCalls(pk) = CallsOf(pk)
        /\ Cardinality(FailedLinkEntries(pk)) = 1

\* C28: the create batch of a run holds only instances that had no external_id
\* when the run began; no instance is in both batches of a run; and whatever
\* the step, an external_id that was assigned stays as it is, so that the
\* instance is in no later create batch.
C28_NoDuplicateCreate ==
    /\ \A pk \in Pks :
          (Exists(last.before, pk) /\ last.before[pk].external_id # None) =>
              inst[pk].external_id = last.before[pk].external_id
    /\ last.op = "export" =>
          /\ \A pk \in Range(last.to_create) : last.before[pk].external_id = None
          /\ Range(last.to_create) \cap Range(last.to_update) = {}
          /\ \A i, j \in DOMAIN last.to_create :
                i # j => last.to_create[i] # last.to_create[j]

\* a run that created an instance, left it out of sync because a link request
\* failed, and sent an update batch without it
C28_Witness ==
    /\ last.op = "export" /\ last.patched
    /\ \E pk \in Pks :
          /\ CreatedRemotely(pk) /\ FailedCalls(pk) # {}
          /\ ~is_synced(inst[pk]) /\ pk \notin Range(last.to_update)

\* ================================== exporter.py, successive runs of one table
\* The runs of TableExporter(Affiliation) with no local edit between them; the
\* record of every run is kept.
MaxRetryTime == 4

\* TableExporter(Affiliation).run() with the responses given
RetryRun(post_status, ndata, patch_status, fail) ==
    /\ Tick
    /\ \E X \in {export_run(inst, "Affiliation", post_status, ndata, patch_status, fail,
                            now')} :
           /\ inst' = X.db
           /\ xstats' = X.st
           /\ last' = [NoStep EXCEPT !.op = "export", !.model = "Affiliation",
                                     !.exc = X.exc,
                                     !.before = inst, !.post_status = post_status,
                                     !.patch_status = patch_status,
                                     !.to_create = X.to_create, !.to_update = X.to_update,
                                     !.posted = X.posted, !.patched = X.patched,
                                     !.data = X.data, !.calls = X.calls]
           /\ aw' = [aw EXCEPT !.hist = Append(@, last')]
    /\ UNCHANGED <<nextPk, stats, debug, remote, horizon, task, att>>

\* every response the remote can give to the requests of the run
RetryExport ==
    LET model == "Affiliation"
        n == Cardinality({pk \in Objects(inst, model) : inst[pk].external_id = None})
        m == Cardinality({pk \in Objects(inst, model) :
                             inst[pk].external_id # None /\ ~is_synced(inst[pk])})
        NoFail == [pk \in Objects(inst, model) |-> 0]
        Fails == {f \in [Objects(inst, model) -> 0..Len(relation_config(model))] :
                     \A pk \in Objects(inst, model) : f[pk] \in LinkRequests(model, pk)}
    IN  \/ \E fail \in Fails : \E patch_status \in IF m = 0 THEN {200} ELSE {200, 400} :
              RetryRun(200, n, patch_status, fail)
        \/ n > 0 /\ \E ndata \in {n - 1, n + 1} : RetryRun(200, ndata, 200, NoFail)
        \/ n > 0 /\ RetryRun(400, n, 200, NoFail)

\* both roles are known remotely; the affiliations are new or in sync
InitRetry ==
    /\ inst \in SeedDbs({"exported"}, 2, {"new", "exported"}, 2)
    /\ \E pk \in Pks : inst[pk].model = "Affiliation"
    /\ nextPk = 1 + Cardinality({pk \in Pks : Exists(inst, pk)})
    /\ now = 1
    /\ stats = EmptyImportStats
    /\ xstats = EmptyExportStats
    /\ last = NoStep
    /\ debug = FALSE
    /\ remote = {}
    /\ horizon = MaxRetryTime
    /\ task = NoTask
    /\ att = Idle
    /\ aw = [op |-> "retry", hist |-> <<>>]

NextRetry == RetryExport

SpecRetry == InitRetry /\ [][NextRetry]_vars


\* the models and aw_ids of the instances that existed before the latest run
MetBefore ==
    IF aw.op = "init" THEN {}
    ELSE {x \in ({"Person"} \X PolIds) \cup ({"Affiliation"} \X AffIds) :
             aw.before[Table(x[1])][x[2]].exists}

RowBefore(x) == aw.before[Table(x[1])][x[2]]
RowAfter(x) == aw[Table(x[1])][x[2]]

\* the run changed a field of the instance
UpdatedByRun(x) == fields_dict(x[1], RowBefore(x)) # fields_dict(x[1], RowAfter(x))

\* C27: an existing instance the import has updated is out of sync after the
\* run, also when it was in sync before, and has been saved; an existing
\* instance the import leaves unchanged is the row it was, sync state included.
C27_UpdateDesyncs ==
    \A x \in MetBefore :
        IF UpdatedByRun(x)
        THEN ~is_synced(RowAfter(x)) /\ <<x[1], x[2]>> \in aw.saved
        ELSE RowAfter(x) = RowBefore(x)

\* a person in sync before the run adopts the remote wikidata id and is out of
\* sync afterwards
C27_Witness ==
    /\ aw.op = "politician"
    /\ <<"Person", 1>> \in MetBefore
    /\ is_synced(RowBefore(<<"Person", 1>>))
    /\ RowBefore(<<"Person", 1>>).wikidata_id = <<>>
    /\ RowAfter(<<"Person", 1>>).wikidata_id = <<"y">>
    /\ ~is_synced(RowAfter(<<"Person", 1>>))

\* the 'updated' entries of the stats of the latest run for an instance
UpdatedEntries(x) ==
    {e \in aw.stats : e.op = "updated" /\ e.model = x[1] /\ e.id = x[2]}

\* C26: an instance the import updated has one 'updated' entry whose diff
\* lists exactly the fields this update changed, each with its value before
\* and after the update; an instance no field of which changed has no entry.
C26_DiffIsThisUpdate ==
    \A x \in MetBefore :
        IF UpdatedByRun(x)
        THEN \E e \in UpdatedEntries(x) :
                /\ UpdatedEntries(x) = {e}
                /\ e.diff = changes_of_update(x[1], RowBefore(x), RowAfter(x))
        ELSE UpdatedEntries(x) = {}

\* ------------------------------------------------------------------ C29 claim
\* the database after the k-th run
After(k) == IF k < Len(aw.hist) THEN aw.hist[k + 1].before ELSE inst

\* a link request of the k-th run for pk failed
LinkFailedIn(k, pk) ==
    \E i \in DOMAIN aw.hist[k].calls : aw.hist[k].calls[i].pk = pk /\ ~aw.hist[k].calls[i].ok

\* every request of the k-th run succeeded
AllSucceeded(k) ==
    /\ aw.hist[k].exc = ""
    /\ aw.hist[k].post_status = 200 /\ aw.hist[k].patch_status = 200
    /\ \A i \in DOMAIN aw.hist[k].calls : aw.hist[k].calls[i].ok

\* the relation fields of pk that differ from the last synced state when the
\* k-th run begins
ChangedAt(k, pk) ==
    {f \in Range(RelFields) :
        /\ Rel(aw.hist[k].before[pk], f) # None
        /\ Rel(aw.hist[k].before[pk].last_synced_state, f) # Rel(aw.hist[k].before[pk], f)}

\* the link requests of the k-th run for the field f of pk
CallsAt(k, pk, f) ==
    {i \in DOMAIN aw.hist[k].calls :
        aw.hist[k].calls[i].pk = pk /\ aw.hist[k].calls[i].field_id = FieldId(f)}

\* the k-th run made no request that names pk
Untouched(k, pk) ==
    /\ pk \notin Range(aw.hist[k].to_create) \cup Range(aw.hist[k].to_update)
    /\ \A i \in DOMAIN aw.hist[k].calls : aw.hist[k].calls[i].pk # pk
    /\ After(k)[pk] = aw.hist[k].before[pk]

\* C29: after a run in which a link request of an instance failed, the
\* instance has an external_id and is not synced; if every request of the next
\* run succeeds, the instance is in its update batch and not in its create
\* batch, one link request is made for every relation that differs from the
\* last synced state, and the instance ends the run synced; the run after that
\* makes no request for it.
C29_RetryConverges ==
    \A k \in 1..Len(aw.hist) : \A pk \in Pks :
        LinkFailedIn(k, pk) =>
            /\ After(k)[pk].external_id # None /\ ~is_synced(After(k)[pk])
            /\ (k + 1 <= Len(aw.hist) /\ AllSucceeded(k + 1)) =>
                  /\ pk \in Range(aw.hist[k + 1].to_update)
                  /\ pk \notin Range(aw.hist[k + 1].to_create)
                  /\ aw.hist[k + 1].patched
                  /\ \A f \in Range(RelFields) :
                        Cardinality(CallsAt(k + 1, pk, f)) =
                            IF f \in ChangedAt(k + 1, pk) THEN 1 ELSE 0
                  /\ is_synced(After(k + 1)[pk])
                  /\ k + 2 <= Len(aw.hist) => Untouched(k + 2, pk)

\* a link request failed when the affiliation was created; the second run
\* updated, linked and synced it while it created another one; the third left
\* it alone
C29_Witness ==
    /\ Len(aw.hist) = 3
    /\ \E pk \in Pks :
          /\ pk \in Range(aw.hist[1].to_create) /\ LinkFailedIn(1, pk)
          /\ pk \in Range(aw.hist[2].to_update)
          /\ AllSucceeded(2) /\ Cardinality(ChangedAt(2, pk)) >= 2
          /\ is_synced(After(2)[pk])
          /\ Untouched(3, pk)

\* ------------------------------------ abgeordnetenwatch.py, the data fetcher
MaxTotal == 5
MaxRpp == 3

\* ceil(a / b) for b > 0
Ceil(a, b) == (a + b - 1) \div b

\* the response of the API to a request of a page: the rows of the page of a
\* collection of `stored` rows with ids 1..stored, and the meta.result it
\* reports
fetch_from_api(server, page) ==
    [data |-> [i \in 1..(IF (page + 1) * server.results_per_page <= server.stored
                         THEN server.results_per_page
                         ELSE IF page * server.results_per_page >= server.stored THEN 0
                         ELSE server.stored - page * server.results_per_page)
               |-> page * server.results_per_page + i],
     meta |-> [total |-> server.total, results_per_page |-> server.results_per_page]]

\* the loop body that goes on until a page is empty
iter_pages_until_empty(F) ==
    Only({IF Len(data.data) = 0
          THEN [F EXCEPT !.pc = "done", !.requests = Append(@, F.page)]
          ELSE [F EXCEPT !.requests = Append(@, F.page),
                         !.yielded = @ \o data.data,
                         !.offset = @ + data.meta.results_per_page,
                         !.page = @ + 1]
          : data \in {fetch_from_api(F.server, F.page)}})

\* one pass of the loop of AbgeordnetenwatchDataFetcher.iter_pages, with the
\* rows iter_rows yields from the page
iter_pages(F) ==
    Only({IF Len(data.data) = 0
          THEN [F EXCEPT !.pc = "done", !.requests = Append(@, F.page)]
          ELSE IF F.offset + data.meta.results_per_page >= data.meta.total
          THEN [F EXCEPT !.pc = "done", !.requests = Append(@, F.page),
                         !.yielded = @ \o data.data,
                         !.offset = @ + data.meta.results_per_page]
          ELSE [F EXCEPT !.requests = Append(@, F.page),
                         !.yielded = @ \o data.data,
                         !.offset = @ + data.meta.results_per_page,
                         !.page = @ + 1]
          : data \in {fetch_from_api(F.server, F.page)}})

\* the consumer of iter_rows asks for the rows of the next page
IterRows ==
    /\ aw.pc = "loop"
    /\ aw' = iter_pages(aw)
    /\ UNCHANGED <<inst, nextPk, now, stats, xstats, last, debug, remote, horizon, task,
                   att>>

\* a fetcher before its first request, and a server holding `stored` rows that
\* reports a total of at least that many
InitFetch ==
    /\ CoreIdle({FALSE}, MaxTime)
    /\ task = NoTask /\ att = Idle
    /\ \E total \in 0..MaxTotal, rpp \in 1..MaxRpp :
       \E stored \in 0..total :
          aw = [op |-> "fetch", pc |-> "loop", page |-> 0, offset |-> 0,
                requests |-> <<>>, yielded |-> <<>>,
                server |-> [stored |-> stored, total |-> total,
                            results_per_page |-> rpp]]

NextFetch == IterRows

SpecFetch == InitFetch /\ [][NextFetch]_vars

\* the server reports the number of rows it serves
Consistent == aw.server.stored = aw.server.total

\* pages 0, 1, 2, ... were requested in this order, the rows of every fetched
\* page were yielded once in page order, and the loop has passes left only
\* while the offset is below the reported total
PagesInOrder ==
    /\ \A i \in DOMAIN aw.requests : aw.requests[i] = i - 1
    /\ \A i \in DOMAIN aw.yielded : aw.yielded[i] = i
    /\ Len(aw.yielded) =
          IF Len(aw.requests) * aw.server.results_per_page <= aw.server.stored
          THEN Len(aw.requests) * aw.server.results_per_page ELSE aw.server.stored
    /\ aw.pc = "loop" =>
          /\ aw.page = Len(aw.requests)
          /\ aw.offset = aw.page * aw.server.results_per_page
          /\ aw.page = 0 \/ aw.offset < aw.server.total
    /\ aw.pc = "done" =>
          \/ Len(aw.yielded) = aw.server.stored
             /\ Len(aw.requests) * aw.server.results_per_page >= aw.server.stored
          \/ aw.offset >= aw.server.total

\* C21 as stated: requests in page order, every row yielded once in page
\* order, termination, and a collection of total rows served results_per_page
\* per page is read with ceil(total / results_per_page) requests.
C21_CeilRequests ==
    /\ PagesInOrder
    /\ Len(aw.requests) <= Ceil(aw.server.total, aw.server.results_per_page) + 1
    /\ (aw.pc = "done" /\ Consistent) =>
          /\ Len(aw.requests) = Ceil(aw.server.total, aw.server.results_per_page)
          /\ Len(aw.yielded) = aw.server.total

\* C21, amended: as above, but the number of requests for a consistent
\* collection is max(1, ceil(total / results_per_page)): the first page is
\* always requested, and an empty collection ends at that empty page.
C21_AtLeastOneRequest ==
    /\ PagesInOrder
    /\ Len(aw.requests) <= Ceil(aw.server.total, aw.server.results_per_page) + 1
    /\ (aw.pc = "done" /\ Consistent) =>
          /\ Len(aw.requests) =
                IF aw.server.total = 0 THEN 1
                ELSE Ceil(aw.server.total, aw.server.results_per_page)
          /\ Len(aw.yielded) = aw.server.total

\* five rows served two per page are read with requests for pages 0, 1, 2
C21_Witness ==
    /\ aw.op = "fetch" /\ aw.pc = "done" /\ Consistent
    /\ aw.server.total = 5 /\ aw.server.results_per_page = 2
    /\ aw.requests = <<0, 1, 2>>
    /\ aw.yielded = <<1, 2, 3, 4, 5>>

\* ------------------------------- importer.py, the import task on several rows
\* the import task alone, on a database of roles and a response of up to
\* MaxRows rows
InitAtomic == InitWith(SeedDbs(SeedStates, 0, {}, 0), BOOLEAN, RowSets, MaxTaskTime)

NextAtomic == ImportTask

SpecAtomic == InitAtomic /\ [][NextAtomic]_vars

\* the database as the Role stage left it when it raised
StageLeft == import_run(inst, nextPk, "Role", remote, debug, now + 1).db

\* C23: when an import stage aborts with a fatal error, the instances it had
\* created or updated before the failure are not rolled back: the database
\* after the failed run is the one the stage left.
C23_PartialCommitKept ==
    [][(task'.op = "import" /\ task'.exc # "") => inst' = StageLeft]_vars

\* --------------------------------- importer.py, relations of the imported rows
\* A table whose rows carry one foreign key, looked up by a value of the related
\* table; the related table holds the lookup values in `targets`.
RelIds == {1, 2}
RelValues == {"s", "t"}
NoTarget == ""

NoRelObj == [exists |-> FALSE, name |-> "", rel |-> NoTarget]

\* ImportStats.reset
reset(st) == EmptyImportStats

\* the values get_obj_data collects for the relation field: the null label
\* and empty values are left out
relation_values(rows) == {r.rel : r \in rows} \ {NoTarget}

\* TableImporter.get_related_instances: the cache of the lookup values that
\* resolve, after the missing ones were created or reported
get_related_instances(Y, new_values, create) ==
    LET existing_objs == new_values \cap Y.targets
        missing_values == new_values \ Y.targets
    IN  IF missing_values = {} THEN [Y EXCEPT !.cache = existing_objs]
        ELSE IF create
        THEN [Y EXCEPT !.targets = @ \cup missing_values, !.cache = new_values]
        ELSE [handle_error(Y, missing_values) EXCEPT !.cache = existing_objs]

\* TableImporter.save_instance of a row of the table; no constraint fails
save_instance_rel(Y, id, obj, is_new) ==
    [Y EXCEPT !.objs[id] = obj,
              !.st = track(@, IF is_new THEN "created" ELSE "updated", id)]

\* TableImporter.create_or_update_instance with the fields that are no relation
create_or_update_rel(Y, id, fields) ==
    LET Y0 == [Y EXCEPT !.st = reset_instance(@)]
    IN  IF Y.objs[id].exists
        THEN IF Y.objs[id].name # fields.name
             THEN save_instance_rel(Y0, id, [Y.objs[id] EXCEPT !.name = fields.name], FALSE)
             ELSE Y0
        ELSE save_instance_rel(Y0, id, [NoRelObj EXCEPT !.exists = TRUE,
                                                        !.name = fields.name], TRUE)

\* TableImporter.process_relations for the foreign key: the cached target or
\* None is set if it differs
process_relations(Y, id, fields) ==
    LET new_id == IF fields.rel \in Y.cache THEN fields.rel ELSE NoTarget
    IN  IF Y.objs[id].rel # new_id
        THEN save_instance_rel(Y, id, [Y.objs[id] EXCEPT !.rel = new_id], FALSE)
        ELSE Y

RECURSIVE rel_loop(_, _, _, _)
\* the loop of create_or_update_main_instances over obj_data
rel_loop(Y, rows, ids, k) ==
    IF k > Len(ids) THEN Y
    ELSE Only({rel_loop(Only({IF Y1.st.instance_failed THEN Y1
                              ELSE process_relations(Y1, ids[k], fields)
                              : Y1 \in {create_or_update_rel(Y, ids[k], fields)}}),
                        rows, ids, k + 1)
               : fields \in {r \in rows : r.id = ids[k]}})

\* TableImporter.delete_instances of the table
delete_instances_rel(Y, old_ids, new_ids) ==
    IF old_ids \ new_ids # {}
    THEN [Y EXCEPT !.objs = [i \in RelIds |->
                                IF i \in old_ids \ new_ids THEN NoRelObj ELSE @[i]],
                   !.st = track(@, "deleted", Cardinality(old_ids \ new_ids))]
    ELSE Y

\* TableImporter.run of the table: get_obj_data, build_related_cache, the
\* reset of the stats, the loop over the rows, delete_instances
rel_run(Y, rows, create) ==
    Only({IF Y1.exc # "" THEN Y1
          ELSE delete_instances_rel(
                  rel_loop([Y1 EXCEPT !.st = reset(@)], rows,
                           SortedSeq({r.id : r \in rows}), 1),
                  {i \in RelIds : Y.objs[i].exists}, {r.id : r \in rows})
          : Y1 \in {get_related_instances(Y, relation_values(rows), create)}})

\* TableImporter(model).run() on the rows the remote table returns
RelationImport ==
    /\ aw.op = "init"
    /\ aw' = [rel_run([aw EXCEPT !.before = [targets |-> aw.targets, objs |-> aw.objs]],
                      aw.rows, aw.create) EXCEPT !.op = "import"]
    /\ UNCHANGED <<inst, nextPk, now, stats, xstats, last, debug, remote, horizon, task,
                   att>>

\* a related table, local rows whose targets exist, remote rows, the
\* create_if_missing setting of the field and settings.DEBUG
InitRel ==
    /\ CoreIdle({FALSE}, MaxTime)
    /\ task = NoTask /\ att = Idle
    /\ \E targets \in SUBSET RelValues, create \in BOOLEAN, dbg \in BOOLEAN :
       \E objs \in [RelIds -> {NoRelObj} \cup
                              [exists : {TRUE}, name : {"a"},
                               rel : targets \cup {NoTarget}]],
          rows \in {R \in SUBSET [id : RelIds, name : {"a", "b"},
                                  rel : RelValues \cup {NoTarget}] :
                       \A a, b \in R : a.id = b.id => a = b} :
          aw = [op |-> "init", exc |-> "", debug |-> dbg, create |-> create,
                targets |-> targets, objs |-> objs, rows |-> rows, cache |-> {},
                st |-> EmptyImportStats,
                before |-> [targets |-> targets, objs |-> objs]]

NextRel == RelationImport

SpecRel == InitRel /\ [][NextRel]_vars

\* the relation values of the rows that did not resolve before the run
Unresolved == relation_values(aw.rows) \ aw.before.targets

\* C25: when relation values of the rows do not resolve: with create_if_missing
\* the missing targets exist afterwards and the rows are linked to them;
\* otherwise, in strict mode the import raises ImportError and writes nothing,
\* and in debug mode it goes on, the stats hold a 'skipped' entry and the
\* relation of the rows concerned is left unset.
C25_UnresolvedRelations ==
    (aw.op = "import" /\ Unresolved # {}) =>
        IF aw.create
        THEN /\ aw.exc = ""
             /\ Unresolved \subseteq aw.targets
             /\ \A r \in aw.rows : aw.objs[r.id].rel = r.rel
        ELSE IF ~aw.debug
        THEN /\ aw.exc = "ImportError"
             /\ aw.objs = aw.before.objs /\ aw.targets = aw.before.targets
        ELSE /\ aw.exc = ""
             /\ aw.targets = aw.before.targets
             /\ Len(aw.st.skipped) > 0
             /\ \A r \in aw.rows : r.rel \in Unresolved => aw.objs[r.id].rel = NoTarget

\* ------------------- abgeordnetenwatch.py and exporter.py, the orchestrators
\* a list of importers that ignores only_setup
importers_all(only_setup) ==
    <<"Parliament", "Election", "LegislativePeriod", "Candidacy", "Mandate">>

\* AbgeordnetenwatchImporter.__init__: the importers, by the name of the class
importers(only_setup) ==
    <<"Parliament", "Election", "LegislativePeriod">>
        \o (IF ~only_setup THEN <<"Candidacy", "Mandate">> ELSE <<>>)

\* NocoDBExporter.__init__: the table exporters, by the name of the model
table_exporters == <<"Person", "Organization", "Role", "Affiliation">>

\* the models a stage can write instances of
Creates(stage) ==
    IF stage \in {"Candidacy", "Mandate"} THEN {"Person", "Affiliation"} ELSE {stage}

\* hasattr(importer, "stats"): the helper importers collect none
HasStats(kind, stage) == kind = "export" \/ stage \in {"Candidacy", "Mandate"}

\* the loop of run() calls run() of the next importer or exporter
StageStart ==
    /\ aw.exc = "" /\ ~aw.running /\ aw.pos <= Len(aw.pipeline)
    /\ aw' = [aw EXCEPT !.running = TRUE,
                        !.events = Append(@, [ev |-> "start", stage |-> aw.pipeline[aw.pos]])]
    /\ UNCHANGED <<inst, nextPk, now, stats, xstats, last, debug, remote, horizon, task,
                   att>>

\* the stage returns, having written instances of some of its models; its
\* stats are merged and the loop goes on
StageReturn ==
    /\ aw.running
    /\ \E written \in SUBSET Creates(aw.pipeline[aw.pos]) :
         aw' = [aw EXCEPT !.running = FALSE, !.pos = @ + 1,
                          !.written = @ \cup written,
                          !.merged = IF HasStats(aw.kind, aw.pipeline[aw.pos])
                                     THEN Append(@, aw.pipeline[aw.pos]) ELSE @,
                          !.events = Append(@, [ev |-> "return",
                                                stage |-> aw.pipeline[aw.pos]])]
    /\ UNCHANGED <<inst, nextPk, now, stats, xstats, last, debug, remote, horizon, task,
                   att>>

\* the stage raises: the exception leaves run(); AbgeordnetenwatchImporter.run
\* is transaction.atomic and loses what the run has written
StageRaise ==
    /\ aw.running
    /\ \E written \in SUBSET Creates(aw.pipeline[aw.pos]) :
         aw' = [aw EXCEPT !.running = FALSE, !.exc = "Exception",
                          !.written = IF aw.kind = "export" THEN @ \cup written ELSE {},
                          !.events = Append(@, [ev |-> "raise",
                                                stage |-> aw.pipeline[aw.pos]])]
    /\ UNCHANGED <<inst, nextPk, now, stats, xstats, last, debug, remote, horizon, task,
                   att>>

\* an orchestrator after its construction
InitOrch ==
    /\ CoreIdle({FALSE}, MaxTime)
    /\ task = NoTask /\ att = Idle
    /\ \E kind \in {"abgeordnetenwatch", "export"}, only_setup \in BOOLEAN :
         /\ kind = "export" => ~only_setup
         /\ aw = [op |-> "orchestrator", kind |-> kind, only_setup |-> only_setup,
                  pipeline |-> IF kind = "export" THEN table_exporters
                               ELSE importers(only_setup),
                  pos |-> 1, running |-> FALSE, exc |-> "", written |-> {},
                  merged |-> <<>>, events |-> <<>>]

NextOrch == StageStart \/ StageReturn \/ StageRaise

SpecOrch == InitOrch /\ [][NextOrch]_vars

\* the dependency order the orchestrator declares
Declared ==
    IF aw.kind = "export" THEN <<"Person", "Organization", "Role", "Affiliation">>
    ELSE IF aw.only_setup THEN <<"Parliament", "Election", "LegislativePeriod">>
    ELSE <<"Parliament", "Election", "LegislativePeriod", "Candidacy", "Mandate">>

\* C22: the stages run one at a time in the declared order: the k-th stage
\* starts after the (k-1)-th has returned, a stage that raised is the last
\* event of the run, and with only_setup only the three helper stages run and
\* no Person or Affiliation is written.
C22_StagesInOrder ==
    /\ Len(aw.events) <= 2 * Len(Declared)
    /\ \A i \in DOMAIN aw.events :
          /\ aw.events[i].stage = Declared[(i + 1) \div 2]
          /\ aw.events[i].ev = "start" <=> i % 2 = 1
          /\ aw.events[i].ev = "raise" => i = Len(aw.events)
    /\ aw.running <=> Len(aw.events) % 2 = 1
    /\ aw.only_setup => aw.written \cap {"Person", "Affiliation"} = {}

\* the candidacy stage raised after the three helper stages had returned, and
\* the mandate stage was never started
C22_Witness ==
    /\ aw.op = "orchestrator" /\ aw.kind = "abgeordnetenwatch" /\ ~aw.only_setup
    /\ Len(aw.events) = 8
    /\ aw.events[6] = [ev |-> "return", stage |-> "LegislativePeriod"]
    /\ aw.events[7] = [ev |-> "start", stage |-> "Candidacy"]
    /\ aw.events[8] = [ev |-> "raise", stage |-> "Candidacy"]
    /\ aw.exc # "" /\ ~aw.running
====
